---- MODULE Spec2Model ----
(***************************************************************************)
(* AirWatch backend: the prediction endpoints (routers/predict.py), the    *)
(* model singleton (model_loader.py), the startup preload (main.py) and    *)
(* the health check (routers/health.py).                                  *)
(*                                                                         *)
(* Scheduling.  Every handler is an `async def` whose body holds no        *)
(* `await`: the event loop runs a handler from its first line to its       *)
(* return before it starts another one.  Each handler is therefore one    *)
(* action.  What does change while a handler runs is the outside world:    *)
(* the wall clock (read twice by predict_air_quality) and the replies of   *)
(* the data providers; these are inputs of the action.                     *)
(*                                                                         *)
(* Numbers.  Probabilities and the threshold are Python floats (IEEE-754   *)
(* binary64).  A float in [0, 1] is modelled exactly as the pair           *)
(* <<hi, lo>> with value (hi * 2^30 + lo) * 2^-60; literals and            *)
(* subtraction round to 53 significant bits, ties to even, as the          *)
(* hardware does.  A decimal quantity is a ratio <<n, d>>.                 *)
(***************************************************************************)
EXTENDS Integers, Sequences, FiniteSets, TLC

\* ------------------------------------------------------------------ bounds

\* probabilities are drawn from the grid k / ProbSteps, k in 0..ProbSteps
ProbSteps == 100

\* the wall clock runs over the days 0..MaxDay
MaxDay == 1

\* ------------------------------------------------- binary64 arithmetic

Half == 2^15
Limb == 2^30

RECURSIVE BitLen(_)
BitLen(n) == IF n = 0 THEN 0 ELSE 1 + BitLen(n \div 2)

\* Round the 60-bit fixed-point number hi * 2^30 + lo (plus a sticky bit for
\* what lies below 2^-60) to 53 significant bits, ties to even.
RoundTo53(hi, lo, sticky) ==
    LET drop == BitLen(hi \div 2^23)
        m    == 2^drop
        q    == lo \div m
        r    == lo % m
        up   == /\ drop > 0
                /\ \/ 2 * r > m
                   \/ 2 * r = m /\ sticky
                   \/ 2 * r = m /\ ~sticky /\ q % 2 = 1
        lo2  == (q + (IF up THEN 1 ELSE 0)) * m
    IN  IF lo2 >= Limb THEN <<hi + 1, lo2 - Limb>> ELSE <<hi, lo2>>

\* The float nearest to the ratio n / d (0 <= n <= d < 2^15): what Python
\* stores for a literal such as 0.40 or 0.2, and for a scorer output.
FloatOf(n, d) ==
    LET x1 == n * Half
        x2 == (x1 % d) * Half
        x3 == (x2 % d) * Half
        x4 == (x3 % d) * Half
    IN  RoundTo53((x1 \div d) * Half + (x2 \div d),
                  (x3 \div d) * Half + (x4 \div d),
                  (x4 % d) # 0)

FLess(a, b) == a[1] < b[1] \/ (a[1] = b[1] /\ a[2] < b[2])

FGeq(a, b) == ~FLess(a, b)

\* abs(a - b): the exact difference, rounded once.
FAbsDiff(a, b) ==
    LET x == IF FLess(a, b) THEN b ELSE a
        y == IF FLess(a, b) THEN a ELSE b
        borrow == IF x[2] < y[2] THEN 1 ELSE 0
    IN  RoundTo53(x[1] - y[1] - borrow, x[2] - y[2] + borrow * Limb, FALSE)

\* ------------------------------------------------------ decision rules

\* the float literals 0.2 and 0.1 of the confidence tests
PointTwo == FloatOf(1, 5)
PointOne == FloatOf(1, 10)

CategoryUnhealthy == "Unhealthy for Sensitive Groups or worse (AQI >= 101)"
CategorySafe == "Good to Moderate (AQI <= 100)"

\* predict_air_quality: classification, confidence and category from the
\* float probability and the float threshold.

\* (faulty variant: the difference taken without abs())
ConfidenceLiveNoAbs(prob_unhealthy, prediction_threshold) ==
    IF FLess(prob_unhealthy, prediction_threshold) THEN "Low"
    ELSE IF FLess(PointTwo, FAbsDiff(prob_unhealthy, prediction_threshold))
    THEN "High"
    ELSE IF FLess(PointOne, FAbsDiff(prob_unhealthy, prediction_threshold))
         THEN "Medium"
         ELSE "Low"

ConfidenceLive(prob_unhealthy, prediction_threshold) ==
    IF FLess(PointTwo, FAbsDiff(prob_unhealthy, prediction_threshold))
    THEN "High"
    ELSE IF FLess(PointOne, FAbsDiff(prob_unhealthy, prediction_threshold))
         THEN "Medium"
         ELSE "Low"

\* (faulty variant: `>` for `>=`)
IsUnhealthyLiveStrict(prob_unhealthy, prediction_threshold) ==
    FLess(prediction_threshold, prob_unhealthy)

IsUnhealthyLive(prob_unhealthy, prediction_threshold) ==
    FGeq(prob_unhealthy, prediction_threshold)

DecideLive(prob_unhealthy, prediction_threshold) ==
    LET is_unhealthy == IsUnhealthyLive(prob_unhealthy, prediction_threshold)
    IN  [classification |-> IF is_unhealthy THEN "Unhealthy" ELSE "Safe",
         confidence     |-> ConfidenceLive(prob_unhealthy, prediction_threshold),
         aqi_category   |-> IF is_unhealthy THEN CategoryUnhealthy
                                            ELSE CategorySafe]

\* predict_with_features: the same three rules, written out a second time.
ConfidenceCustom(prob_unhealthy, prediction_threshold) ==
    IF FLess(PointTwo, FAbsDiff(prob_unhealthy, prediction_threshold))
    THEN "High"
    ELSE IF FLess(PointOne, FAbsDiff(prob_unhealthy, prediction_threshold))
         THEN "Medium"
         ELSE "Low"

IsUnhealthyCustom(prob_unhealthy, prediction_threshold) ==
    FGeq(prob_unhealthy, prediction_threshold)

DecideCustom(prob_unhealthy, prediction_threshold) ==
    LET is_unhealthy == IsUnhealthyCustom(prob_unhealthy, prediction_threshold)
    IN  [classification |-> IF is_unhealthy THEN "Unhealthy" ELSE "Safe",
         confidence     |-> ConfidenceCustom(prob_unhealthy, prediction_threshold),
         aqi_category   |-> IF is_unhealthy THEN CategoryUnhealthy
                                            ELSE CategorySafe]

\* ------------------------------------------------------------ dictionaries

\* A Python dict is a function on a finite set of string keys.
EmptyDict == [k \in {} |-> 0]

Has(d, k) == k \in DOMAIN d

Get(d, k, default) == IF k \in DOMAIN d THEN d[k] ELSE default

Put(d, k, v) == (k :> v) @@ d

\* Python's None where a number may stand (a null cell of a DataFrame).
None == 0 - 2^30

\* pandas comparison of a cell with a number: a null cell compares False.
CellGt(x, c) == x # None /\ x > c
CellLt(x, c) == x # None /\ x < c

\* pandas.cut with right-closed bins: the index of the first edge >= x;
\* a null cell stays null.
RECURSIVE Cut(_, _, _)
Cut(x, edges, i) ==
    IF x = None THEN None
    ELSE IF i > Len(edges) \/ x <= edges[i] THEN i - 1
    ELSE Cut(x, edges, i + 1)

\* ---------------------------------------------------------------- calendar

\* Day 0 of the model is Monday 2025-06-30; day d is d days later (day d in
\* 1..31 is July d 2025, day 185 is 2026-01-01).  Neither year is a leap year.
\* datetime.now().date(), .month, .weekday(), .timetuple().tm_yday and
\* strftime("%Y-%m-%d") of the day d.
DaysBefore == <<0, 31, 59, 90, 120, 151, 181, 212, 243, 273, 304, 334, 365>>

DateOf(d) ==
    LET year  == 2025 + (180 + d) \div 365
        yday  == ((180 + d) % 365) + 1
        month == CHOOSE m \in 1..12 :
                     DaysBefore[m] < yday /\ yday <= DaysBefore[m + 1]
    IN  [year        |-> year,
         month       |-> month,
         day         |-> yday - DaysBefore[month],
         weekday     |-> d % 7,
         tm_yday     |-> yday]

Strftime(d) == <<DateOf(d).year, DateOf(d).month, DateOf(d).day>>

\* ------------------------------------------------------------ feature maps
\* AQI and weather quantities are held in hundredths (45 is 4500, 8.5 mph is
\* 850, 0.1 in is 10); calendar fields and 0/1 flags are plain integers.  The
\* sine/cosine encodings are held as their argument (the month, the weekday)
\* and temp_wind_ratio is truncated to hundredths: they only feed the scorer.

\* predict_air_quality, the mapping built from the current observation, the
\* forecast and tomorrow's date.
LiveFeatures(current_aqi, weather_forecast, tomorrow) ==
    [AQI_prev1    |-> current_aqi,
     AQI_prev2    |-> (current_aqi * 95) \div 100,
     AQI_3day_avg |-> current_aqi,
     AQI_7day_avg |-> current_aqi,
     AQI_3day_max |-> (current_aqi * 110) \div 100,
     AQI_7day_std |-> 500,
     AQI_trend    |-> 0,
     temp_max     |-> Get(weather_forecast, "temp", 7000),
     wind_avg     |-> Get(weather_forecast, "wind_speed", 800),
     precip       |-> IF Get(weather_forecast, "precip_prob", 0) > 5000
                      THEN 10 ELSE 0,
     rh_avg       |-> 6000,
     month        |-> DateOf(tomorrow).month,
     day_of_week  |-> DateOf(tomorrow).weekday,
     is_weekend   |-> IF DateOf(tomorrow).weekday >= 5 THEN 1 ELSE 0,
     day_of_year  |-> DateOf(tomorrow).tm_yday,
     season       |-> (DateOf(tomorrow).month % 12) \div 3,
     is_holiday   |-> 0]

\* FeatureEngineer.create_features_from_dict: the one-row frame, returned as
\* the row's dict.  Each step adds columns only when its source column exists.
WithRatio(df) ==
    IF Has(df, "temp_max") /\ Has(df, "wind_avg")
    THEN Put(df, "temp_wind_ratio",
             IF df["temp_max"] = None \/ df["wind_avg"] = None
                \/ df["wind_avg"] + 100 = 0
             THEN None
             ELSE (df["temp_max"] * 100) \div (df["wind_avg"] + 100))
    ELSE df

WithWind(df) ==
    IF Has(df, "wind_avg")
    THEN Put(Put(df, "is_stagnant",
                 IF CellLt(df["wind_avg"], 500) THEN 1 ELSE 0),
             "wind_category", Cut(df["wind_avg"], <<500, 1000, 1500>>, 1))
    ELSE df

\* (faulty variant: rain from 0.1 in on, `>= 0.1`)
WithRainInclusive(df) ==
    IF Has(df, "precip")
    THEN Put(df, "has_rain",
             IF df["precip"] # None /\ df["precip"] >= 10 THEN 1 ELSE 0)
    ELSE df

WithRain(df) ==
    IF Has(df, "precip")
    THEN Put(df, "has_rain", IF CellGt(df["precip"], 10) THEN 1 ELSE 0)
    ELSE df

WithTempBin(df) ==
    IF Has(df, "temp_max")
    THEN Put(df, "temp_bin", Cut(df["temp_max"], <<3200, 5000, 7000, 9000>>, 1))
    ELSE df

WithHumidity(df) ==
    IF Has(df, "rh_avg")
    THEN Put(df, "humidity_high", IF CellGt(df["rh_avg"], 7000) THEN 1 ELSE 0)
    ELSE df

\* (faulty variant: the season taken without the wrap of December)
WithMonthNoWrap(df) ==
    IF Has(df, "month")
    THEN Put(Put(Put(df, "month_sin", df["month"]), "month_cos", df["month"]),
             "season", df["month"] \div 3)
    ELSE df

WithMonth(df) ==
    IF Has(df, "month")
    THEN Put(Put(Put(df, "month_sin", df["month"]), "month_cos", df["month"]),
             "season", (df["month"] % 12) \div 3)
    ELSE df

WithDow(df) ==
    IF Has(df, "day_of_week")
    THEN Put(Put(df, "dow_sin", df["day_of_week"]), "dow_cos", df["day_of_week"])
    ELSE df

create_features_from_dict(feature_dict) ==
    WithDow(WithMonth(WithHumidity(WithTempBin(WithRain(WithWind(
        WithRatio(feature_dict)))))))

\* ------------------------------------------------------------- explanation

\* f"{x:.0f}" and f"{x:.1f}" of a quantity held in hundredths: the nearest
\* integer (tenth), ties to even; the result is in units (tenths).
RoundHalfEven(v, unit) ==
    LET q == v \div unit
        r == v % unit
    IN  IF 2 * r > unit \/ (2 * r = unit /\ q % 2 = 1) THEN q + 1 ELSE q

Format0(v) == RoundHalfEven(v, 100)
Format1(v) == RoundHalfEven(v, 10)

\* ModelLoader.get_top_factors: the rules in their fixed order, each adding
\* at most one sentence; a sentence is <<text, formatted number>>.
FactorPrevAQI(features) ==
    IF Has(features, "AQI_prev1")
    THEN IF features["AQI_prev1"] > 8000
         THEN << <<"High previous day AQI", Format0(features["AQI_prev1"])>> >>
         ELSE IF features["AQI_prev1"] < 3000
         THEN << <<"Low previous day AQI", Format0(features["AQI_prev1"])>> >>
         ELSE <<>>
    ELSE <<>>

FactorWind(features) ==
    IF Has(features, "wind_avg")
    THEN IF features["wind_avg"] < 500
         THEN << <<"Low wind speed - poor dispersion",
                   Format1(features["wind_avg"])>> >>
         ELSE IF features["wind_avg"] > 1200
         THEN << <<"Good wind conditions", Format1(features["wind_avg"])>> >>
         ELSE <<>>
    ELSE <<>>

\* (faulty variant: a sentence only when it rained)
FactorRainWhenWet(features) ==
    IF Has(features, "precip") /\ Has(features, "has_rain")
    THEN IF features["has_rain"] > 0
         THEN << <<"Recent precipitation - cleaner air", 0>> >>
         ELSE <<>>
    ELSE <<>>

FactorRain(features) ==
    IF Has(features, "precip") /\ Has(features, "has_rain")
    THEN IF features["has_rain"] > 0
         THEN << <<"Recent precipitation - cleaner air", 0>> >>
         ELSE << <<"No recent rain - particles not washed out", 0>> >>
    ELSE <<>>

FactorTemp(features) ==
    IF Has(features, "temp_max") /\ features["temp_max"] > 8500
    THEN << <<"High temperature - increased emissions",
              Format0(features["temp_max"])>> >>
    ELSE <<>>

FactorAvg(features) ==
    IF Has(features, "AQI_3day_avg") /\ features["AQI_3day_avg"] > 6000
    THEN << <<"Elevated 3-day average AQI", Format0(features["AQI_3day_avg"])>> >>
    ELSE <<>>

FactorWeekend(features) ==
    IF Has(features, "is_weekend") /\ features["is_weekend"] = 1
    THEN << <<"Weekend - typically lower emissions", 0>> >>
    ELSE <<>>

\* (faulty variant: the last three sentences kept, `factors[-3:]`)
get_top_factors_last(features, threshold) ==
    LET factors == FactorPrevAQI(features) \o FactorWind(features)
                   \o FactorRain(features) \o FactorTemp(features)
                   \o FactorAvg(features) \o FactorWeekend(features)
        all == IF factors = <<>> THEN << <<"Multiple moderate factors", 0>> >>
               ELSE factors
    IN  SubSeq(all, IF Len(all) < 3 THEN 1 ELSE Len(all) - 2, Len(all))

\* (faulty variant: every sentence returned, no `[:3]`)
get_top_factors_all(features, threshold) ==
    LET factors == FactorPrevAQI(features) \o FactorWind(features)
                   \o FactorRain(features) \o FactorTemp(features)
                   \o FactorAvg(features) \o FactorWeekend(features)
    IN  IF factors = <<>> THEN << <<"Multiple moderate factors", 0>> >>
        ELSE factors

get_top_factors(features, threshold) ==
    LET factors == FactorPrevAQI(features) \o FactorWind(features)
                   \o FactorRain(features) \o FactorTemp(features)
                   \o FactorAvg(features) \o FactorWeekend(features)
        all == IF factors = <<>> THEN << <<"Multiple moderate factors", 0>> >>
               ELSE factors
    IN  SubSeq(all, 1, IF Len(all) < 3 THEN Len(all) ELSE 3)

\* ------------------------------------------------------------ ModelLoader

\* The feature-name list that train.py saved beside the model: the columns
\* of the engineered sample data, in the order create_features adds them.
FeatureList ==
    <<"temp_max", "wind_avg", "precip", "rh_avg", "AQI_prev1", "AQI_prev2",
      "AQI_prev7", "AQI_3day_avg", "AQI_7day_avg", "AQI_3day_max",
      "AQI_7day_std", "AQI_trend", "month", "day_of_week", "is_weekend",
      "day_of_year", "season", "is_holiday", "month_sin", "month_cos",
      "dow_sin", "dow_cos", "temp_bin", "wind_category", "is_stagnant",
      "has_rain", "temp_wind_ratio", "humidity_high">>

\* ModelLoader.__init__: nothing loaded.  A field that is None is <<>>, a
\* field that holds x is <<x>>.
NewModelLoader == [model |-> <<>>, feature_names |-> <<>>, loaded |-> FALSE]

\* ModelLoader.load against the files on disk: the model first, then the
\* feature list, then the flag; a failed joblib.load raises and leaves the
\* fields set so far.
Load(self, files) ==
    IF ~files.model_file THEN [self |-> self, raised |-> TRUE]
    ELSE IF ~files.feature_file
         THEN [self |-> [self EXCEPT !.model = <<"model">>], raised |-> TRUE]
         ELSE [self |-> [model |-> <<"model">>,
                         feature_names |-> <<FeatureList>>,
                         loaded |-> TRUE],
               raised |-> FALSE]

\* ModelLoader.is_loaded
is_loaded(self) == self.loaded

\* The feature vector of ModelLoader.predict: one entry per name of the
\* list, in its order; 0 for a name the mapping lacks.

\* (faulty variant: a name the mapping lacks is skipped, not defaulted)
FeatureVectorSkipping(feature_names, features) ==
    LET present == SelectSeq(feature_names, LAMBDA n : n \in DOMAIN features)
    IN  [i \in 1..Len(present) |-> features[present[i]]]

FeatureVector(feature_names, features) ==
    [i \in 1..Len(feature_names) |-> Get(features, feature_names[i], 0)]

\* ModelLoader.predict.  `score` is what the opaque classifier does with the
\* vector: "raise", or the probability <<n, d>> it returns.
\* Iterating a feature list that is None, or calling predict_proba on a model
\* that is None, raises as well.
\* scoring: predict_proba was called; probability: <<>> or <<float>>.
Predict(self, features, score) ==
    IF ~self.loaded
    THEN [raised |-> TRUE, scoring |-> FALSE, probability |-> <<>>]
    ELSE IF self.feature_names = <<>> \/ self.model = <<>>
    THEN [raised |-> TRUE, scoring |-> FALSE, probability |-> <<>>]
    ELSE IF score = <<>>
         THEN [raised |-> TRUE, scoring |-> TRUE, probability |-> <<>>]
         ELSE [raised |-> FALSE, scoring |-> TRUE,
               probability |-> <<FloatOf(score[1], score[2])>>]

\* get_model_loader(model_path, feature_list_path) against the module global
\* (<<>> is None): the first call creates the instance, binds the global and
\* only then loads; later calls return the global whatever its state.

\* (faulty variant: a global that is not loaded is replaced and loaded anew)
GetModelLoaderReloading(global, files) ==
    IF global = <<>> \/ ~global[1].loaded
    THEN [loader  |-> <<Load(NewModelLoader, files).self>>,
          raised  |-> Load(NewModelLoader, files).raised,
          loads   |-> 1,
          created |-> 1]
    ELSE [loader |-> global, raised |-> FALSE, loads |-> 0, created |-> 0]

GetModelLoader(global, files) ==
    IF global = <<>>
    THEN [loader  |-> <<Load(NewModelLoader, files).self>>,
          raised  |-> Load(NewModelLoader, files).raised,
          loads   |-> 1,
          created |-> 1]
    ELSE [loader |-> global, raised |-> FALSE, loads |-> 0, created |-> 0]

\* ---------------------------------------------------------------- response

\* round(prob_unhealthy, 3) of a float: the nearest thousandth of its exact
\* value, ties to even, as the ratio <<m, 1000>>.
Round3(f) ==
    LET c0 == (f[2] % Half) * 1000
        c1 == (f[2] \div Half) * 1000 + c0 \div Half
        c2 == (f[1] % Half) * 1000 + c1 \div Half
        c3 == (f[1] \div Half) * 1000 + c2 \div Half
        m  == c3 \div Half
        top  == c3 % Half
        rest == (c2 % Half) + (c1 % Half) + (c0 % Half)
        up == \/ 2 * top > Half
              \/ 2 * top = Half /\ rest > 0
              \/ 2 * top = Half /\ rest = 0 /\ m % 2 = 1
    IN  <<m + (IF up THEN 1 ELSE 0), 1000>>

\* the PredictionResponse of predict_air_quality
LiveResponse(zip_code, tomorrow, prob_unhealthy, threshold, feature_dict) ==
    LET d == DecideLive(prob_unhealthy, FloatOf(threshold[1], threshold[2]))
    IN  [date           |-> Strftime(tomorrow),
         location       |-> zip_code,
         prob_unhealthy |-> Round3(prob_unhealthy),
         classification |-> d.classification,
         threshold      |-> threshold,
         confidence     |-> d.confidence,
         aqi_category   |-> d.aqi_category,
         top_factors    |-> get_top_factors(feature_dict, threshold)]

\* the PredictionResponse of predict_with_features
CustomResponse(tomorrow, prob_unhealthy, threshold, full_features) ==
    LET d == DecideCustom(prob_unhealthy, FloatOf(threshold[1], threshold[2]))
    IN  [date           |-> Strftime(tomorrow),
         location       |-> "Custom",
         prob_unhealthy |-> Round3(prob_unhealthy),
         classification |-> d.classification,
         threshold      |-> threshold,
         confidence     |-> d.confidence,
         aqi_category   |-> d.aqi_category,
         top_factors    |-> get_top_factors(full_features, threshold)]

\* -------------------------------------------------------------------- state

VARIABLES
    now,                  \* the wall clock's calendar day
    files,                \* which artifact files joblib.load can read
    prediction_threshold, \* settings.prediction_threshold, a ratio
    model_loader,         \* model_loader._model_loader: <<>> or <<instance>>
    prediction_cache,     \* predict.prediction_cache: cache key -> response
    startup,              \* "pending", "loaded" or "failed": the preload
    load_calls,           \* history: executions of ModelLoader.load
    load_done,            \* history: executions of load that returned
    instances,            \* history: ModelLoader objects created
    scored,               \* history: key -> number of probabilities scored
    attempted,            \* history: keys for which model_loader.predict ran
    returned,             \* history: key -> the responses sent with 200
    last,                 \* the handler that ran last and what it did
    probe                 \* input and result of a rule evaluated on its own

vars == <<now, files, prediction_threshold, model_loader, prediction_cache,
          startup, load_calls, load_done,
          instances, scored, attempted, returned,
          last, probe>>

DefaultZip == "08901"
ZipCodes == {"08901", "99999"}
Keys == ZipCodes \X (0..MaxDay)

\* f"{zip_code}_{datetime.now().date()}"
CacheKey(zip_code, day) == <<zip_code, day>>

\* the configured threshold: the default 0.40 or an override from the
\* environment
Thresholds == {<<40, 100>>, <<25, 100>>, <<50, 100>>}

NoProbe == [fn |-> "none"]

Idle == [op |-> "none", key |-> <<"", 0>>, hit |-> FALSE, status |-> 0,
         body |-> <<>>, loads |-> 0, fetches |-> 0, predicts |-> 0,
         scored |-> FALSE, ready |-> FALSE, readable |-> FALSE,
         again |-> FALSE, raised |-> "", coords |-> <<>>]

\* The process after import: no loader, an empty cache, the clock at day 0.
InitService(thresholds) ==
    /\ now = 0
    /\ files \in {[model_file |-> FALSE, feature_file |-> FALSE],
                  [model_file |-> TRUE, feature_file |-> TRUE]}
    /\ prediction_threshold \in thresholds
    /\ model_loader = <<>>
    /\ prediction_cache = [k \in {} |-> 0]
    /\ startup = "pending"
    /\ load_calls = 0
    /\ load_done = 0
    /\ instances = 0
    /\ scored = [k \in Keys |-> 0]
    /\ attempted = {}
    /\ returned = [k \in Keys |-> {}]
    /\ last = Idle
    /\ probe = NoProbe

Init == InitService({<<40, 100>>})

\* --------------------------------------------------------- the environment

\* midnight passes between two handlers
Tick ==
    /\ now < MaxDay
    /\ now' = now + 1
    /\ UNCHANGED <<files, prediction_threshold, model_loader, prediction_cache,
                   startup, load_calls, load_done,
                   instances, scored, attempted,
                   returned, last, probe>>

\* train.py save_model in another process: the model file, then the list
SaveModelFile ==
    /\ ~files.model_file
    /\ files' = [files EXCEPT !.model_file = TRUE]
    /\ UNCHANGED <<now, prediction_threshold, model_loader, prediction_cache,
                   startup, load_calls, load_done,
                   instances, scored, attempted,
                   returned, last, probe>>

SaveFeatureList ==
    /\ files.model_file /\ ~files.feature_file
    /\ files' = [files EXCEPT !.feature_file = TRUE]
    /\ UNCHANGED <<now, prediction_threshold, model_loader, prediction_cache,
                   startup, load_calls, load_done,
                   instances, scored, attempted,
                   returned, last, probe>>

\* ------------------------------------------------------ predict_air_quality

\* data_collector.NJ_ZIP_COORDS and get_coordinates_for_zip, the coordinates
\* in ten-thousandths of a degree
NJ_ZIP_COORDS ==
    [z \in {"08901", "07960", "08540", "07302", "08002"} |->
        IF z = "08901" THEN <<404862, 0 - 744518>>
        ELSE IF z = "07960" THEN <<407968, 0 - 744821>>
        ELSE IF z = "08540" THEN <<403573, 0 - 746672>>
        ELSE IF z = "07302" THEN <<407178, 0 - 740431>>
        ELSE <<398654, 0 - 750357>>]

get_coordinates_for_zip(zip_code) ==
    Get(NJ_ZIP_COORDS, zip_code, <<400583, 0 - 744057>>)

\* the ZIP code the handler works with: the body's, else the query's, else
\* the default ("" stands for an absent or empty value)
ZipOf(request_zip, zip_code) ==
    IF request_zip # "" THEN request_zip
    ELSE IF zip_code = "" THEN DefaultZip
    ELSE zip_code

\* `if cache_key in prediction_cache: return prediction_cache[cache_key]`
\* <<>> on a miss, <<entry>> on a hit.

\* (faulty variant: the membership test always false)
LookupNever(cache, cache_key) == <<>>

Lookup(cache, cache_key) ==
    IF cache_key \in DOMAIN cache THEN <<cache[cache_key]>> ELSE <<>>

\* `prediction_cache[cache_key] = response`

\* (faulty variant: the assignment left out)
StoreNothing(cache, cache_key, response) == cache

\* (faulty variant: entries of other days dropped when one is stored)
StoreToday(cache, cache_key, response) ==
    Put([k \in {j \in DOMAIN cache : j[2] = cache_key[2]} |-> cache[k]],
        cache_key, response)

Store(cache, cache_key, response) == Put(cache, cache_key, response)

\* the current AQI taken from fetch_airnow_current's reply, 50.0 without one

\* (faulty variant: no default, a missing reading taken as 0)
CurrentAqiNoDefault(current_aqi_data) ==
    IF Has(current_aqi_data, "AQI") THEN current_aqi_data["AQI"] ELSE 0

CurrentAqi(current_aqi_data) ==
    IF Has(current_aqi_data, "AQI") THEN current_aqi_data["AQI"] ELSE 5000

\* `except Exception: raise HTTPException(status_code=500, ...)`: the caller
\* gets no response body.

\* (faulty variant: the exception swallowed and a default response returned)
OnExceptionFallback(zip_code, tomorrow, threshold) ==
    <<[date           |-> Strftime(tomorrow),
       location       |-> zip_code,
       prob_unhealthy |-> <<0, 1000>>,
       classification |-> "Safe",
       threshold      |-> threshold,
       confidence     |-> "Low",
       aqi_category   |-> CategorySafe,
       top_factors    |-> <<>>]>>

OnException(zip_code, tomorrow, threshold) == <<>>

\* The try block on a cache miss, run against the loader global, the files,
\* the providers' replies, the scorer's behaviour and the day the clock shows
\* when `tomorrow` is taken.  response is <<>> when an exception left the
\* block (HTTP 500) and <<PredictionResponse>> when line 139 returned.
LiveCompute(global, disk, threshold, zip_code, today, current_aqi_data, weather_forecast, score) ==
    LET g == GetModelLoader(global, disk)
        tomorrow == today + 1
        features == LiveFeatures(CurrentAqi(current_aqi_data),
                                 weather_forecast, tomorrow)
        feature_dict == create_features_from_dict(features)
        result == Predict(g.loader[1], feature_dict, score)
    IN  IF g.raised
        THEN [loader |-> g.loader, loads |-> g.loads, created |-> g.created,
              fetches |-> 0, predicts |-> 0, scoring |-> FALSE,
              ready |-> FALSE, raised |-> "get_model_loader", done |-> 0,
              response |-> OnException(zip_code, tomorrow, threshold)]
        ELSE [loader |-> g.loader, loads |-> g.loads, created |-> g.created,
              fetches |-> 2, predicts |-> 1, scoring |-> result.scoring,
              ready |-> g.loader[1].model # <<>>
                        /\ g.loader[1].feature_names # <<>>,
              raised |-> IF result.raised THEN "predict" ELSE "",
              done |-> g.loads,
              response |-> IF result.raised
                           THEN OnException(zip_code, tomorrow, threshold)
                           ELSE <<LiveResponse(zip_code, tomorrow,
                                               result.probability[1],
                                               threshold, feature_dict)>>]

\* the cache after the try block: line 137 runs only when nothing raised

\* (faulty variant: the store moved to a `finally`)
CacheAfterAlways(cache, cache_key, response) ==
    Store(cache, cache_key, IF response = <<>> THEN [error |-> 500]
                            ELSE response[1])

CacheAfter(cache, cache_key, response) ==
    IF response = <<>> THEN cache ELSE Store(cache, cache_key, response[1])

\* what the providers reply, as <<fetch_airnow_current's dict,
\* fetch_nws_forecast's dict>>: the PM2.5 record and the parsed period, or {}
\* from both (no API key, a failed request)
Replies ==
    {<<[AQI |-> 4500], [temp |-> 7500, wind_speed |-> 850, precip_prob |-> 1000]>>,
     <<EmptyDict, EmptyDict>>}

\* what the classifier does: <<>> raises, <<n, d>> is the probability n/d
\* that predict_proba returns, from 0 to 1
Scores == {<<>>, <<65, 100>>}

\* <<body zip_code, query zip_code>> of a request
ZipInputs == {<<"", "">>, <<"", "08901">>, <<"99999", "">>}

\* One request, from the first line of the handler to its return or raise.
\* On a miss the handler reads what the providers reply and what the scorer
\* does; rollover = 1 when midnight passes between the clock reading of the
\* cache key and the reading of `tomorrow`.
PredictAirQuality(request_zip, zip_code) ==
    LET zip == ZipOf(request_zip, zip_code)
        cache_key == CacheKey(zip, now)
        cached == Lookup(prediction_cache, cache_key)
    IN  /\ startup # "pending"
        /\ IF cached # <<>>
           THEN /\ last' = [Idle EXCEPT !.op = "predict", !.key = cache_key,
                                        !.hit = TRUE, !.status = 200,
                                        !.body = cached]
                /\ returned' = [returned EXCEPT ![cache_key] = @ \cup {cached[1]}]
                /\ UNCHANGED <<now, model_loader, prediction_cache, load_calls,
                               load_done,
                               instances, scored, attempted>>
           ELSE \E reply \in Replies, score \in Scores, rollover \in {0, 1} :
                \E c \in {LiveCompute(model_loader, files, prediction_threshold,
                                       zip, now + rollover, reply[1], reply[2],
                                       score)} :
                    /\ now + rollover <= MaxDay
                    /\ now' = now + rollover
                    /\ model_loader' = c.loader
                    /\ load_calls' = load_calls + c.loads
                    /\ load_done' = load_done + c.done
                    /\ instances' = instances + c.created
                    /\ prediction_cache' =
                           CacheAfter(prediction_cache, cache_key, c.response)
                    /\ scored' = [scored EXCEPT ![cache_key] =
                           @ + (IF c.response # <<>> THEN 1 ELSE 0)]
                    /\ attempted' = IF c.predicts = 1
                                    THEN attempted \cup {cache_key}
                                    ELSE attempted
                    /\ returned' = IF c.response = <<>> THEN returned
                                   ELSE [returned EXCEPT ![cache_key] =
                                             @ \cup {c.response[1]}]
                    /\ last' = [op |-> "predict", key |-> cache_key,
                                hit |-> FALSE,
                                status |-> IF c.response = <<>> THEN 500
                                           ELSE 200,
                                body |-> c.response, loads |-> c.loads,
                                fetches |-> c.fetches, predicts |-> c.predicts,
                                scored |-> c.response # <<>>, ready |-> c.ready,
                                readable |-> files.model_file
                                             /\ files.feature_file,
                                again |-> c.predicts = 1
                                          /\ cache_key \in attempted,
                                raised |-> c.raised,
                                coords |-> IF c.fetches = 2
                                           THEN <<get_coordinates_for_zip(zip)>>
                                           ELSE <<>>]
        /\ UNCHANGED <<files, prediction_threshold, startup, probe>>

\* ---------------------------------------------------- predict_with_features

\* FeatureInput(...).dict(): every field of the schema is a key; an optional
\* field the caller left out is None (precip defaults to 0.0).

\* (faulty variant: the AQI fields under the names of the feature list)
FeatureInputSchemaNames(aqi_prev1, aqi_prev2, aqi_3day_avg, temp_max, wind_avg, rh_avg, precip, month, day_of_week, is_weekend) ==
    [AQI_prev1    |-> aqi_prev1,
     AQI_prev2    |-> aqi_prev2,
     AQI_3day_avg |-> aqi_3day_avg,
     temp_max     |-> temp_max,
     wind_avg     |-> wind_avg,
     rh_avg       |-> rh_avg,
     precip       |-> precip,
     month        |-> month,
     day_of_week  |-> day_of_week,
     is_weekend   |-> IF is_weekend THEN 1 ELSE 0]

FeatureInput(aqi_prev1, aqi_prev2, aqi_3day_avg, temp_max, wind_avg, rh_avg, precip, month, day_of_week, is_weekend) ==
    [aqi_prev1    |-> aqi_prev1,
     aqi_prev2    |-> aqi_prev2,
     aqi_3day_avg |-> aqi_3day_avg,
     temp_max     |-> temp_max,
     wind_avg     |-> wind_avg,
     rh_avg       |-> rh_avg,
     precip       |-> precip,
     month        |-> month,
     day_of_week  |-> day_of_week,
     is_weekend   |-> IF is_weekend THEN 1 ELSE 0]

\* the try block of predict_with_features
CustomCompute(global, disk, threshold, today, features, score) ==
    LET g == GetModelLoader(global, disk)
        full_features == create_features_from_dict(features)
        result == Predict(g.loader[1], full_features, score)
    IN  IF g.raised
        THEN [loader |-> g.loader, loads |-> g.loads, created |-> g.created,
              predicts |-> 0, scoring |-> FALSE, ready |-> FALSE,
              raised |-> "get_model_loader", done |-> 0,
              response |-> OnException("Custom", today + 1, threshold)]
        ELSE [loader |-> g.loader, loads |-> g.loads, created |-> g.created,
              predicts |-> 1, scoring |-> result.scoring,
              ready |-> g.loader[1].model # <<>>
                        /\ g.loader[1].feature_names # <<>>,
              raised |-> IF result.raised THEN "predict" ELSE "",
              done |-> g.loads,
              response |-> IF result.raised
                           THEN OnException("Custom", today + 1, threshold)
                           ELSE <<CustomResponse(today + 1,
                                                 result.probability[1],
                                                 threshold, full_features)>>]

PredictWithFeatures(features, score) ==
    \E c \in {CustomCompute(model_loader, files, prediction_threshold, now,
                             features, score)} :
        /\ startup # "pending"
        /\ model_loader' = c.loader
        /\ load_calls' = load_calls + c.loads
        /\ load_done' = load_done + c.done
        /\ instances' = instances + c.created
        /\ last' = [op |-> "predict_features", key |-> <<"Custom", now>>,
                    hit |-> FALSE,
                    status |-> IF c.response = <<>> THEN 500 ELSE 200,
                    body |-> c.response, loads |-> c.loads, fetches |-> 0,
                    predicts |-> c.predicts, scored |-> c.response # <<>>,
                    ready |-> c.ready,
                    readable |-> files.model_file /\ files.feature_file,
                    again |-> FALSE, raised |-> c.raised, coords |-> <<>>]
        /\ UNCHANGED <<now, files, prediction_threshold, prediction_cache,
                       startup, scored, attempted, returned, probe>>

\* ------------------------------------------------------- startup and health

\* main.startup_event: the preload; an exception is logged and swallowed
StartupEvent ==
    \E g \in {GetModelLoader(model_loader, files)} :
        /\ startup = "pending"
        /\ model_loader' = g.loader
        /\ load_calls' = load_calls + g.loads
        /\ load_done' = load_done + (IF g.raised THEN 0 ELSE g.loads)
        /\ instances' = instances + g.created
        /\ startup' = IF g.raised THEN "failed" ELSE "loaded"
        /\ last' = [Idle EXCEPT !.op = "startup", !.loads = g.loads,
                                !.readable = files.model_file
                                             /\ files.feature_file]
        /\ UNCHANGED <<now, files, prediction_threshold, prediction_cache,
                       scored, attempted, returned, probe>>

\* health.health_check

\* (faulty variant: loaded whenever get_model_loader returned)
HealthResponseOptimistic(g) ==
    [status       |-> "ok",
     model_loaded |-> ~g.raised,
     version      |-> "1.0.0"]

HealthResponse(g) ==
    [status       |-> "ok",
     model_loaded |-> IF g.raised THEN FALSE ELSE is_loaded(g.loader[1]),
     version      |-> "1.0.0"]

HealthCheck ==
    \E g \in {GetModelLoader(model_loader, files)} :
        /\ startup # "pending"
        /\ model_loader' = g.loader
        /\ load_calls' = load_calls + g.loads
        /\ load_done' = load_done + (IF g.raised THEN 0 ELSE g.loads)
        /\ instances' = instances + g.created
        /\ last' = [Idle EXCEPT !.op = "health", !.status = 200,
                                !.body = <<HealthResponse(g)>>,
                                !.loads = g.loads,
                                !.readable = files.model_file
                                             /\ files.feature_file]
        /\ UNCHANGED <<now, files, prediction_threshold, prediction_cache,
                       startup, scored, attempted, returned, probe>>

\* ------------------------------------------------------------- the service

FeatureInputs ==
    {FeatureInput(4500, 3800, 4200, 7500, 850, 6500, 0, 7, 2, FALSE),
     FeatureInput(9000, None, None, 9000, 300, None, 20, 7, 5, TRUE)}

Next ==
    \/ StartupEvent
    \/ HealthCheck
    \/ \E z \in ZipInputs : PredictAirQuality(z[1], z[2])
    \/ \E features \in FeatureInputs, score \in Scores :
          PredictWithFeatures(features, score)
    \/ Tick
    \/ SaveModelFile
    \/ SaveFeatureList

Spec == Init /\ [][Next]_vars

\* The service with or without its startup event: an application whose
\* startup handlers never run (tests/test_api.py builds TestClient(app)
\* outside a `with` block) serves its first request with the loader global
\* still None; startup = "none" stands for that process.
InitHealth ==
    /\ now = 0
    /\ files \in {[model_file |-> FALSE, feature_file |-> FALSE],
                  [model_file |-> TRUE, feature_file |-> TRUE]}
    /\ prediction_threshold = <<40, 100>>
    /\ model_loader = <<>>
    /\ prediction_cache = [k \in {} |-> 0]
    /\ startup \in {"pending", "none"}
    /\ load_calls = 0
    /\ load_done = 0
    /\ instances = 0
    /\ scored = [k \in Keys |-> 0]
    /\ attempted = {}
    /\ returned = [k \in Keys |-> {}]
    /\ last = Idle
    /\ probe = NoProbe

SpecHealth == InitHealth /\ [][Next]_vars

\* ------------------------------------------------- one request on its own
\* A single request of either endpoint against a loaded model, with the
\* scorer's probability drawn from the whole grid and the threshold from
\* every configured value.  probe holds the inputs and, once the endpoint has
\* run, what it returned.

LoadedGlobal ==
    <<Load(NewModelLoader, [model_file |-> TRUE, feature_file |-> TRUE]).self>>

AllFiles == [model_file |-> TRUE, feature_file |-> TRUE]

\* the probabilities a request is scored with: a grid of ProbSteps steps and
\* the hundredths 0.30, 0.40, 0.43, 0.52, 0.65
Probabilities ==
    {<<k, ProbSteps>> : k \in 0..ProbSteps}
        \cup {<<k, 100>> : k \in {30, 40, 43, 52, 65}}

ProbeInputs ==
    [fn        : {"input"},
     score     : Probabilities,
     threshold : Thresholds,
     reply     : Replies,
     features  : FeatureInputs,
     today     : 0..MaxDay,
     out       : {<<>>}]

InitRequest ==
    /\ now = 0
    /\ files = AllFiles
    /\ prediction_threshold = <<40, 100>>
    /\ model_loader = LoadedGlobal
    /\ prediction_cache = [k \in {} |-> 0]
    /\ startup = "loaded"
    /\ load_calls = 1
    /\ load_done = 1
    /\ instances = 1
    /\ scored = [k \in Keys |-> 0]
    /\ attempted = {}
    /\ returned = [k \in Keys |-> {}]
    /\ last = Idle
    /\ probe \in ProbeInputs

\* the try block of predict_air_quality on the probe's inputs
ProbeLive ==
    /\ probe.fn = "input"
    /\ probe' = [probe EXCEPT
           !.fn = "predict_air_quality",
           !.out = LiveCompute(model_loader, files, probe.threshold, DefaultZip,
                               probe.today, probe.reply[1], probe.reply[2],
                               probe.score).response]
    /\ UNCHANGED <<now, files, prediction_threshold, model_loader,
                   prediction_cache, startup, load_calls, load_done,
                   instances, scored,
                   attempted, returned, last>>

\* the try block of predict_with_features on the probe's inputs
ProbeCustom ==
    /\ probe.fn = "input"
    /\ probe' = [probe EXCEPT
           !.fn = "predict_with_features",
           !.out = CustomCompute(model_loader, files, probe.threshold,
                                 probe.today, probe.features,
                                 probe.score).response]
    /\ UNCHANGED <<now, files, prediction_threshold, model_loader,
                   prediction_cache, startup, load_calls, load_done,
                   instances, scored,
                   attempted, returned, last>>

NextRequest == ProbeLive \/ ProbeCustom

SpecRequest == InitRequest /\ [][NextRequest]_vars

Answered == probe.fn \in {"predict_air_quality", "predict_with_features"}

\* exact comparisons of the decimal quantities <<n, d>>
RatioGeq(p, t) == p[1] * t[2] >= t[1] * p[2]

\* |p - t| * den > num * (the common denominator), i.e. |p - t| > num / den
Distance(p, t) ==
    IF RatioGeq(p, t) THEN p[1] * t[2] - t[1] * p[2]
    ELSE t[1] * p[2] - p[1] * t[2]

DistanceGt(p, t, num, den) == Distance(p, t) * den > num * p[2] * t[2]

\* ------------------------------------------------ training data frames
\* FeatureEngineer.create_features and prepare_for_training.  A DataFrame is
\* the sequence of its rows, each a dict on the frame's columns.  A null cell
\* of a raw, lag, calendar or weather column is None.  The rolling statistics
\* are exact ratios <<num, den>> and their null is NaN; AQI_7day_std is held
\* as its square, the sample variance.

NaN == <<0, 0>>

Columns(df) == DOMAIN df[1]

Column(df, c) == [i \in 1..Len(df) |-> df[i][c]]

\* the rows f[1], ..., f[n] as a frame
Rows(f, n) == SubSeq(f, 1, n)

\* df[c] = col
WithColumn(df, c, col) ==
    Rows([i \in 1..Len(df) |-> Put(df[i], c, col[i])], Len(df))

\* Series.shift(k): row i takes the value of row i - k
Shift(col, k, null) ==
    [i \in 1..Len(col) |-> IF i <= k THEN null ELSE col[i - k]]

\* df.sort_values('Date').reset_index(drop=True), the dates being distinct
SortByDate(df) ==
    Rows([k \in 1..Len(df) |->
             df[CHOOSE i \in 1..Len(df) :
                    Cardinality({j \in 1..Len(df) :
                                    df[j]["Date"] < df[i]["Date"]}) = k - 1]],
         Len(df))

\* (faulty variant: the lag taken forwards, shift(-k))
ShiftBack(col, k, null) ==
    [i \in 1..Len(col) |-> IF i + k > Len(col) THEN null ELSE col[i + k]]

\* FeatureEngineer._create_lag_features
create_lag_features_forward(df, is_training) ==
    IF "AQI" \notin Columns(df) THEN df
    ELSE LET AQI == Column(df, "AQI")
         IN  WithColumn(WithColumn(WithColumn(df,
                 "AQI_prev1", ShiftBack(AQI, 1, None)),
                 "AQI_prev2", ShiftBack(AQI, 2, None)),
                 "AQI_prev7", ShiftBack(AQI, 7, None))

create_lag_features(df, is_training) ==
    IF "AQI" \notin Columns(df) THEN df
    ELSE LET AQI == Column(df, "AQI")
         IN  WithColumn(WithColumn(WithColumn(df,
                 "AQI_prev1", Shift(AQI, 1, None)),
                 "AQI_prev2", Shift(AQI, 2, None)),
                 "AQI_prev7", Shift(AQI, 7, None))

\* Series.rolling(window, min_periods): the non-null values of the `window`
\* rows that end at row j
Window(col, j, window) ==
    SelectSeq(SubSeq(col, IF j - window + 1 < 1 THEN 1 ELSE j - window + 1, j),
              LAMBDA v : v # None)

RECURSIVE Sum(_)
Sum(w) == IF w = <<>> THEN 0 ELSE w[1] + Sum(Tail(w))

Max(w) ==
    w[CHOOSE i \in 1..Len(w) : \A j \in 1..Len(w) : w[j] <= w[i]]

\* n * sum(x^2) - sum(x)^2, written as the sum of the squared differences of
\* all pairs (the same number)
RECURSIVE PairSquares(_)
PairSquares(w) ==
    IF Len(w) <= 1 THEN 0
    ELSE Sum([i \in 1..(Len(w) - 1) |-> (w[1] - w[i + 1]) * (w[1] - w[i + 1])])
         + PairSquares(Tail(w))

RollingMean(col, window, min_periods) ==
    [j \in 1..Len(col) |->
        LET w == Window(col, j, window)
        IN  IF Len(w) < min_periods THEN NaN ELSE <<Sum(w), Len(w)>>]

RollingMax(col, window, min_periods) ==
    [j \in 1..Len(col) |->
        LET w == Window(col, j, window)
        IN  IF Len(w) < min_periods THEN NaN ELSE <<Max(w), 1>>]

\* .std() is the sample deviation (ddof = 1): null for fewer than 2 values
RollingStd(col, window, min_periods) ==
    [j \in 1..Len(col) |->
        LET w == Window(col, j, window)
        IN  IF Len(w) < min_periods \/ Len(w) < 2 THEN NaN
            ELSE <<PairSquares(w), Len(w) * (Len(w) - 1)>>]

\* df['AQI_prev1'] - df['AQI_7day_avg']
Minus(prev, avg) ==
    [i \in 1..Len(prev) |->
        IF prev[i] = None \/ avg[i] = NaN THEN NaN
        ELSE <<prev[i] * avg[i][2] - avg[i][1], avg[i][2]>>]

\* (faulty variant: the windows not shifted, so that they end at the row)
create_rolling_features_unshifted(df, is_training) ==
    IF "AQI" \notin Columns(df) THEN df
    ELSE LET AQI == Column(df, "AQI")
             avg7 == RollingMean(AQI, 7, 1)
         IN  WithColumn(WithColumn(WithColumn(WithColumn(WithColumn(df,
                 "AQI_3day_avg", RollingMean(AQI, 3, 1)),
                 "AQI_7day_avg", avg7),
                 "AQI_3day_max", RollingMax(AQI, 3, 1)),
                 "AQI_7day_std", RollingStd(AQI, 7, 2)),
                 "AQI_trend", Minus(Column(df, "AQI_prev1"), avg7))

\* (faulty variant: min_periods = 2 for every statistic)
create_rolling_features_minp(df, is_training) ==
    IF "AQI" \notin Columns(df) THEN df
    ELSE LET AQI == Column(df, "AQI")
             avg7 == Shift(RollingMean(AQI, 7, 2), 1, NaN)
         IN  WithColumn(WithColumn(WithColumn(WithColumn(WithColumn(df,
                 "AQI_3day_avg", Shift(RollingMean(AQI, 3, 2), 1, NaN)),
                 "AQI_7day_avg", avg7),
                 "AQI_3day_max", Shift(RollingMax(AQI, 3, 2), 1, NaN)),
                 "AQI_7day_std", Shift(RollingStd(AQI, 7, 2), 1, NaN)),
                 "AQI_trend", Minus(Column(df, "AQI_prev1"), avg7))

\* (faulty variant: the trend taken against the 3-day average)
create_rolling_features_trend3(df, is_training) ==
    IF "AQI" \notin Columns(df) THEN df
    ELSE LET AQI == Column(df, "AQI")
             avg3 == Shift(RollingMean(AQI, 3, 1), 1, NaN)
         IN  WithColumn(WithColumn(WithColumn(WithColumn(WithColumn(df,
                 "AQI_3day_avg", avg3),
                 "AQI_7day_avg", Shift(RollingMean(AQI, 7, 1), 1, NaN)),
                 "AQI_3day_max", Shift(RollingMax(AQI, 3, 1), 1, NaN)),
                 "AQI_7day_std", Shift(RollingStd(AQI, 7, 2), 1, NaN)),
                 "AQI_trend", Minus(Column(df, "AQI_prev1"), avg3))

\* FeatureEngineer._create_rolling_features
create_rolling_features(df, is_training) ==
    IF "AQI" \notin Columns(df) THEN df
    ELSE LET AQI == Column(df, "AQI")
             avg7 == Shift(RollingMean(AQI, 7, 1), 1, NaN)
         IN  WithColumn(WithColumn(WithColumn(WithColumn(WithColumn(df,
                 "AQI_3day_avg", Shift(RollingMean(AQI, 3, 1), 1, NaN)),
                 "AQI_7day_avg", avg7),
                 "AQI_3day_max", Shift(RollingMax(AQI, 3, 1), 1, NaN)),
                 "AQI_7day_std", Shift(RollingStd(AQI, 7, 2), 1, NaN)),
                 "AQI_trend", Minus(Column(df, "AQI_prev1"), avg7))

\* FeatureEngineer._is_holiday: every row whose date equals a date of the
\* series that falls on July 4, January 1 or December 25
is_holiday(dates) ==
    [i \in 1..Len(dates) |->
        IF \E j \in 1..Len(dates) :
               /\ dates[j] # None
               /\ \/ DateOf(dates[j]).month = 7 /\ DateOf(dates[j]).day = 4
                  \/ DateOf(dates[j]).month = 1 /\ DateOf(dates[j]).day = 1
                  \/ DateOf(dates[j]).month = 12 /\ DateOf(dates[j]).day = 25
               /\ dates[i] = dates[j]
        THEN 1 ELSE 0]

\* FeatureEngineer._create_temporal_features
create_temporal_features(df) ==
    IF "Date" \notin Columns(df) THEN df
    ELSE LET holiday == is_holiday(Column(df, "Date"))
         IN  Rows([i \in 1..Len(df) |->
                 LET date == DateOf(df[i]["Date"])
                 IN  [month       |-> date.month,
                      day_of_week |-> date.weekday,
                      is_weekend  |-> IF date.weekday >= 5 THEN 1 ELSE 0,
                      day_of_year |-> date.tm_yday,
                      season      |-> (date.month % 12) \div 3,
                      is_holiday  |-> holiday[i],
                      month_sin   |-> date.month,
                      month_cos   |-> date.month,
                      dow_sin     |-> date.weekday,
                      dow_cos     |-> date.weekday] @@ df[i]], Len(df))

\* FeatureEngineer._create_weather_features, column by column
TrainTempBin(df) ==
    IF "temp_max" \in Columns(df)
    THEN Rows([i \in 1..Len(df) |->
             Put(df[i], "temp_bin",
                 Cut(df[i]["temp_max"], <<3200, 5000, 7000, 9000>>, 1))], Len(df))
    ELSE df

TrainWind(df) ==
    IF "wind_avg" \in Columns(df)
    THEN Rows([i \in 1..Len(df) |->
             Put(Put(df[i], "wind_category",
                     Cut(df[i]["wind_avg"], <<500, 1000, 1500>>, 1)),
                 "is_stagnant", IF CellLt(df[i]["wind_avg"], 500) THEN 1 ELSE 0)], Len(df))
    ELSE df

TrainRain(df) ==
    IF "precip" \in Columns(df)
    THEN Rows([i \in 1..Len(df) |->
             Put(df[i], "has_rain", IF CellGt(df[i]["precip"], 10) THEN 1 ELSE 0)], Len(df))
    ELSE df

TrainRatio(df) ==
    IF "temp_max" \in Columns(df) /\ "wind_avg" \in Columns(df)
    THEN Rows([i \in 1..Len(df) |->
             Put(df[i], "temp_wind_ratio",
                 IF df[i]["temp_max"] = None \/ df[i]["wind_avg"] = None
                    \/ df[i]["wind_avg"] + 100 = 0
                 THEN None
                 ELSE (df[i]["temp_max"] * 100) \div (df[i]["wind_avg"] + 100))], Len(df))
    ELSE df

TrainHumidity(df) ==
    IF "rh_avg" \in Columns(df)
    THEN Rows([i \in 1..Len(df) |->
             Put(df[i], "humidity_high",
                 IF CellGt(df[i]["rh_avg"], 7000) THEN 1 ELSE 0)], Len(df))
    ELSE df

create_weather_features(df) ==
    TrainHumidity(TrainRatio(TrainRain(TrainWind(TrainTempBin(df)))))

\* df['label_unhealthy'] = (df['AQI'] >= 101).astype(int)
WithLabel(df, is_training) ==
    IF is_training /\ "AQI" \in Columns(df)
    THEN Rows([i \in 1..Len(df) |->
             Put(df[i], "label_unhealthy",
                 IF df[i]["AQI"] # None /\ df[i]["AQI"] >= 10100 THEN 1 ELSE 0)], Len(df))
    ELSE df

\* FeatureEngineer.create_features
create_features(df, is_training) ==
    CHOOSE labelled \in
        {WithLabel(weather, is_training) :
            weather \in {create_weather_features(temporal) :
            temporal \in {create_temporal_features(rolling) :
            rolling \in {create_rolling_features(lagged, is_training) :
            lagged \in {create_lag_features(sorted, is_training) :
            sorted \in {IF "Date" \in Columns(df) THEN SortByDate(df)
                        ELSE df}}}}}} : TRUE

\* FeatureEngineer.get_feature_names: the columns that are neither target nor
\* metadata, in column order (the raw columns standing in the order of the
\* training file: temp_max, wind_avg, precip, rh_avg)
ExcludeCols ==
    {"Date", "AQI", "label_unhealthy", "Site", "County", "State",
     "DAILY_AQI_VALUE"}

get_feature_names(df) ==
    SelectSeq(FeatureList, LAMBDA c : c \in Columns(df) \ ExcludeCols)

RatioColumns == {"AQI_3day_avg", "AQI_7day_avg", "AQI_3day_max",
                 "AQI_7day_std", "AQI_trend"}

NullOf(c) == IF c \in RatioColumns THEN NaN ELSE None

\* a cell as a ratio, and the order of two ratios with positive denominators
AsRatio(c, v) == IF c \in RatioColumns THEN v ELSE <<v, 1>>

RatioLess(a, b) ==
    LET qa == IF a[1] >= 0 THEN a[1] \div a[2] ELSE 0 - ((a[2] - 1 - a[1]) \div a[2])
        qb == IF b[1] >= 0 THEN b[1] \div b[2] ELSE 0 - ((b[2] - 1 - b[1]) \div b[2])
    IN  \/ qa < qb
        \/ qa = qb /\ (a[1] - qa * a[2]) * b[2] < (b[1] - qb * b[2]) * a[2]

\* the k-th smallest of the ratios w
Kth(w, k) ==
    w[CHOOSE i \in 1..Len(w) :
          /\ Cardinality({j \in 1..Len(w) : RatioLess(w[j], w[i])}) < k
          /\ Cardinality({j \in 1..Len(w) : ~RatioLess(w[i], w[j])}) >= k]

\* X.median() of one column: <<"median", lo, hi>> stands for (lo + hi) / 2,
\* the two middle values of the non-null cells; null when every cell is null
Median(X, c) ==
    LET w == SelectSeq([i \in 1..Len(X) |-> AsRatio(c, X[i][c])],
                       LAMBDA v : v # AsRatio(c, NullOf(c)))
    IN  IF w = <<>> THEN NullOf(c)
        ELSE <<"median", Kth(w, (Len(w) + 1) \div 2), Kth(w, (Len(w) \div 2) + 1)>>

\* df.dropna(subset=[c])
DropNa(df, c) == SelectSeq(df, LAMBDA row : row[c] # NullOf(c))

\* FeatureEngineer.prepare_for_training: raised when the frame has no
\* AQI_prev1 column (KeyError), else X, y and the feature names
FeatureFrame(kept, feature_names) ==
    Rows([i \in 1..Len(kept) |->
             [c \in {feature_names[n] : n \in 1..Len(feature_names)} |->
                 kept[i][c]]], Len(kept))

FillNa(X, median) ==
    Rows([i \in 1..Len(X) |->
             [c \in DOMAIN X[i] |->
                 IF X[i][c] = NullOf(c) THEN median[c] ELSE X[i][c]]], Len(X))

Medians(X, feature_names) ==
    [c \in {feature_names[n] : n \in 1..Len(feature_names)} |-> Median(X, c)]
        @@ <<>>

prepare_for_training(df) ==
    IF "AQI_prev1" \notin Columns(df)
    THEN [raised |-> TRUE, X |-> <<>>, y |-> <<>>, feature_names |-> <<>>]
    ELSE CHOOSE result \in UNION
        {UNION {{[raised |-> FALSE,
            X |-> FillNa(X, median),
            y |-> IF "label_unhealthy" \in Columns(df)
                  THEN <<[i \in 1..Len(kept) |-> kept[i]["label_unhealthy"]]>>
                  ELSE <<>>,
            feature_names |-> get_feature_names(df)] :
            median \in {Medians(X, get_feature_names(df))}} :
            X \in {FeatureFrame(kept, get_feature_names(df))}} :
            kept \in {DropNa(IF "label_unhealthy" \in Columns(df)
                            THEN DropNa(df, "label_unhealthy") ELSE df,
                            "AQI_prev1")}} : TRUE

\* ------------------------------------------------ functions on their own
\* The pure steps of the pipeline, each applied once to inputs drawn from a
\* bounded set.  The process is loaded and idle; only probe changes.

LoadedService ==
    /\ now = 0
    /\ files = AllFiles
    /\ prediction_threshold = <<40, 100>>
    /\ model_loader = LoadedGlobal
    /\ prediction_cache = [k \in {} |-> 0]
    /\ startup = "loaded"
    /\ load_calls = 1
    /\ load_done = 1
    /\ instances = 1
    /\ scored = [k \in Keys |-> 0]
    /\ attempted = {}
    /\ returned = [k \in Keys |-> {}]
    /\ last = Idle

ServiceUnchanged ==
    UNCHANGED <<now, files, prediction_threshold, model_loader,
                prediction_cache, startup, load_calls, load_done,
                instances, scored,
                attempted, returned, last>>

\* ---- the feature vector of ModelLoader.predict

\* a schema holds at most MaxNames names
MaxNames == 3

SchemaNames == {"a", "b", "c"}

RECURSIVE SeqsUpTo(_, _)
SeqsUpTo(S, n) ==
    IF n = 0 THEN {<<>>}
    ELSE SeqsUpTo(S, n - 1)
         \cup {Append(q, x) : q \in {r \in SeqsUpTo(S, n - 1) : Len(r) = n - 1},
                              x \in S}

\* A Python dict written as its items in insertion order, keys distinct.
ItemLists ==
    {q \in SeqsUpTo(SchemaNames \X {0, 1, 2, 5}, 2) :
        \A i, j \in 1..Len(q) : i # j => q[i][1] # q[j][1]}

\* the dict built from the items, one after the other
RECURSIVE DictOf(_)
DictOf(items) ==
    IF items = <<>> THEN EmptyDict
    ELSE Put(DictOf(SubSeq(items, 1, Len(items) - 1)),
             items[Len(items)][1], items[Len(items)][2])

VectorInputs ==
    [fn            : {"input"},
     feature_names : SeqsUpTo(SchemaNames, MaxNames),
     items         : ItemLists,
     out           : {<<>>}]

InitVector == LoadedService /\ probe \in VectorInputs

\* lines 65-75 of ModelLoader.predict on the probe's schema and mapping
ProbeVector ==
    /\ probe.fn = "input"
    /\ probe' = [probe EXCEPT
           !.fn = "predict",
           !.out = <<FeatureVector(probe.feature_names, DictOf(probe.items))>>]
    /\ ServiceUnchanged

\* the same with the mapping's items inserted in the opposite order
ProbeVectorReversed ==
    /\ probe.fn = "input"
    /\ probe' = [probe EXCEPT
           !.fn = "predict_reversed",
           !.out = <<FeatureVector(probe.feature_names,
                       DictOf([i \in 1..Len(probe.items) |->
                                  probe.items[Len(probe.items) + 1 - i]]))>>]
    /\ ServiceUnchanged

NextVector == ProbeVector \/ ProbeVectorReversed

SpecVector == InitVector /\ [][NextVector]_vars

\* ---- ModelLoader.get_top_factors

\* the dict with the one key k, and the dicts a key may contribute
Only(k, values) == {EmptyDict} \cup {(k :> v) : v \in values}

FactorFeatures ==
    {p @@ w @@ r @@ t @@ a @@ e :
        p \in Only("AQI_prev1", {2900, 3000, 5000, 8000, 8100}),
        w \in Only("wind_avg", {450, 500, 1200, 1250}),
        r \in {EmptyDict, ("precip" :> 0), ("has_rain" :> 1),
               ("precip" :> 0) @@ ("has_rain" :> 0),
               ("precip" :> 20) @@ ("has_rain" :> 1)},
        t \in Only("temp_max", {8500, 8600}),
        a \in Only("AQI_3day_avg", {6000, 6100}),
        e \in Only("is_weekend", {0, 1})}

FactorInputs ==
    [fn        : {"input"},
     features  : FactorFeatures,
     threshold : Thresholds,
     out       : {<<>>}]

InitFactors == LoadedService /\ probe \in FactorInputs

ProbeFactors ==
    /\ probe.fn = "input"
    /\ probe' = [probe EXCEPT
           !.fn = "get_top_factors",
           !.out = <<get_top_factors(probe.features, probe.threshold)>>]
    /\ ServiceUnchanged

NextFactors == ProbeFactors

SpecFactors == InitFactors /\ [][NextFactors]_vars

\* ---- AQIModelTrainer.load_and_prepare_data on a daily series

\* a training series holds at most MaxRows days
MaxRows == 9

\* AQI readings of a series; 101 is the first unhealthy value
TrainAQI == {4000, 10100}

\* the weather of the k-th day of a series
WeatherOfDay(k) ==
    [temp_max |-> <<3000, 6000, 9500>>[(k % 3) + 1],
     wind_avg |-> <<300, 800, 1600, 1000>>[(k % 4) + 1],
     precip   |-> <<0, 10, 20>>[((k \div 2) % 3) + 1],
     rh_avg   |-> <<6000, 7100>>[(k % 2) + 1]]

\* the dates of an n-day series from day `start`: consecutive days, or days
\* with two readings missing after the second
DatesOf(n, start, gap) ==
    [k \in 1..n |-> start + (k - 1) + (IF gap /\ k > 2 THEN 2 ELSE 0)]

\* the days of a series whose AQI cell is empty in the file: none, the
\* first, or the second and third
MissingReadings == {{}, {1}, {2, 3}}

\* the AQI column of the file in date order
ReadAQI(aqi, missing) ==
    [k \in 1..Len(aqi) |-> IF k \in missing THEN None ELSE aqi[k]]

\* the weather columns a training file can hold
WeatherColumns == {"temp_max", "wind_avg", "precip", "rh_avg"}

\* the rows of the training file, in date order or in the opposite order
TrainingFrame(aqi, missing, start, gap, reversed, columns) ==
    LET n == Len(aqi)
        rows == [k \in 1..n |->
                    [Date |-> DatesOf(n, start, gap)[k],
                     AQI |-> ReadAQI(aqi, missing)[k]]
                        @@ [c \in columns |-> WeatherOfDay(k)[c]]]
    IN  IF reversed THEN Rows([k \in 1..n |-> rows[n + 1 - k]], n)
        ELSE Rows(rows, n)

\* the last first day of a training file: 2026-08-04
LastStart == 400

\* training files: the series of up to MaxRows days from day 0, and the
\* two-day files of every start day and of every set of weather columns
TrainingInputs ==
    [fn       : {"input"},
     aqi      : UNION {[1..n -> TrainAQI] : n \in 1..MaxRows},
     missing  : MissingReadings,
     start    : {0},
     gap      : BOOLEAN,
     reversed : BOOLEAN,
     columns  : {WeatherColumns},
     out      : {<<>>}]
    \cup
    [fn       : {"input"},
     aqi      : {<<4000, 10100>>},
     missing  : {{}},
     start    : 0..LastStart,
     gap      : {FALSE},
     reversed : {FALSE},
     columns  : {WeatherColumns},
     out      : {<<>>}]
    \cup
    [fn       : {"input"},
     aqi      : {<<4000, 10100>>},
     missing  : {{}},
     start    : {0},
     gap      : {FALSE},
     reversed : {FALSE},
     columns  : SUBSET WeatherColumns,
     out      : {<<>>}]

InitTraining == LoadedService /\ probe \in TrainingInputs

\* create_features followed by prepare_for_training
LoadAndPrepareData ==
    /\ probe.fn = "input"
    /\ \E df \in {create_features(
                     TrainingFrame(probe.aqi, probe.missing, probe.start,
                                   probe.gap, probe.reversed, probe.columns),
                     TRUE)} :
           probe' = [probe EXCEPT
               !.fn = "load_and_prepare_data",
               !.out = <<[df |-> df, prepared |-> prepare_for_training(df)]>>]
    /\ ServiceUnchanged

NextTraining == LoadAndPrepareData

SpecTraining == InitTraining /\ [][NextTraining]_vars

\* ---- the feature mappings of the three paths

\* what fetch_airnow_current returns: {} (no API key, a failed request, no
\* PM2.5 entry), a PM2.5 record with no AQI value, or a record with one
Observations ==
    {EmptyDict, [Category |-> 1], [AQI |-> 2500], [AQI |-> 4500],
     [AQI |-> 9000]}

\* what fetch_nws_forecast returns: {} or the parsed period, with a
\* precipitation probability below, at and above 50
Forecasts ==
    {EmptyDict,
     [temp |-> 7500, wind_speed |-> 850, precip_prob |-> 1000],
     [temp |-> 9100, wind_speed |-> 300, precip_prob |-> 5000],
     [temp |-> 6000, wind_speed |-> 1400, precip_prob |-> 8000],
     [temp |-> 6000, wind_speed |-> 500, precip_prob |-> 10000]}

\* GET /predict on day `today` with what the providers reply and what the
\* classifier does
LiveInputs ==
    [fn       : {"GET /predict"},
     today    : 0..LastStart,
     replies  : Observations \X Forecasts,
     score    : Scores,
     out      : {<<>>},
     vector   : {<<>>},
     response : {<<>>}]

\* POST /predict/features with a body the schema accepts: the optional fields
\* given or left out, a calendar of the caller's choice
CustomInputs ==
    [fn       : {"POST /predict/features"},
     features : {FeatureInput(4500, aqi_prev2, aqi_3day_avg, 7500, wind_avg,
                              rh_avg, precip, month, day_of_week, is_weekend) :
                    aqi_prev2 \in {None, 3800},
                    aqi_3day_avg \in {None, 4200},
                    wind_avg \in {300, 850},
                    rh_avg \in {None, 6500, 7500},
                    precip \in {None, 0, 20},
                    month \in 1..12,
                    day_of_week \in 0..6,
                    is_weekend \in BOOLEAN},
     score    : Scores,
     out      : {<<>>},
     vector   : {<<>>},
     response : {<<>>}]

InitFeatures ==
    LoadedService /\ probe \in TrainingInputs \cup LiveInputs \cup CustomInputs

\* predict_air_quality against a loaded model: the mapping it hands to
\* model_loader.predict, the vector made of it, and the response
LiveFeatureDict ==
    /\ probe.fn = "GET /predict"
    /\ \E feature_dict \in {create_features_from_dict(
                               LiveFeatures(CurrentAqi(probe.replies[1]),
                                            probe.replies[2], probe.today + 1))} :
           probe' = [probe EXCEPT
               !.fn = "predict_air_quality",
               !.out = <<feature_dict>>,
               !.vector = <<FeatureVector(FeatureList, feature_dict)>>,
               !.response = LiveCompute(LoadedGlobal, AllFiles,
                                        prediction_threshold, DefaultZip,
                                        probe.today, probe.replies[1],
                                        probe.replies[2], probe.score).response]
    /\ ServiceUnchanged

\* predict_with_features against a loaded model: the mapping it hands to
\* model_loader.predict, the vector made of it, and the response
CustomFeatureDict ==
    /\ probe.fn = "POST /predict/features"
    /\ \E full_features \in {create_features_from_dict(probe.features)} :
           probe' = [probe EXCEPT
               !.fn = "predict_with_features",
               !.out = <<full_features>>,
               !.vector = <<FeatureVector(FeatureList, full_features)>>,
               !.response = CustomCompute(LoadedGlobal, AllFiles,
                                          prediction_threshold, 0,
                                          probe.features, probe.score).response]
    /\ ServiceUnchanged

NextFeatures == LoadAndPrepareData \/ LiveFeatureDict \/ CustomFeatureDict

SpecFeatures == InitFeatures /\ [][NextFeatures]_vars

\* ------------------------------------------------------------ properties

\* C1: for every probability p and threshold t, both endpoints answer
\* "Unhealthy" exactly when p >= t and "Safe" otherwise; p = t is Unhealthy.
ThmC1 ==
    Answered =>
        /\ probe.out # <<>>
        /\ probe.out[1].classification =
               IF RatioGeq(probe.score, probe.threshold) THEN "Unhealthy"
               ELSE "Safe"

WitC1 ==
    /\ probe.fn = "predict_air_quality"
    /\ probe.score = probe.threshold
    /\ probe.out[1].classification = "Unhealthy"

\* C2: for every p and t the confidence is High iff |p - t| > 0.2, Medium
\* iff 0.1 < |p - t| <= 0.2 and Low iff |p - t| <= 0.1, the distance being
\* that of the decimal quantities.
CexC2 ==
    Answered =>
        probe.out[1].confidence =
            IF DistanceGt(probe.score, probe.threshold, 1, 5) THEN "High"
            ELSE IF DistanceGt(probe.score, probe.threshold, 1, 10)
                 THEN "Medium"
                 ELSE "Low"

\* the request of C3: AQI 45, 75 F, 8.5 mph, 10 % precipitation, tomorrow a
\* Tuesday in July, the scorer answering 0.30 at threshold 0.40
TuesdayInJulyCase ==
    /\ probe.fn = "predict_air_quality"
    /\ Has(probe.reply[1], "AQI") /\ probe.reply[1]["AQI"] = 4500
    /\ Has(probe.reply[2], "temp") /\ probe.reply[2]["temp"] = 7500
    /\ probe.reply[2]["wind_speed"] = 850
    /\ probe.reply[2]["precip_prob"] = 1000
    /\ DateOf(probe.today + 1).weekday = 1
    /\ DateOf(probe.today + 1).month = 7
    /\ probe.score = <<30, 100>>
    /\ probe.threshold = <<40, 100>>

\* C3: that request is answered "Safe" with confidence "Medium".
ThmC3 ==
    TuesdayInJulyCase =>
        /\ probe.out # <<>>
        /\ probe.out[1].classification = "Safe"
        /\ probe.out[1].confidence = "Medium"

WitC3 == TuesdayInJulyCase /\ probe.out[1].confidence = "Medium"

\* C4: a hit returns exactly the stored entry and loads, fetches and scores
\* nothing; a successful miss leaves its result stored under its key; so all
\* successful answers for one key are the same response.
ThmC4 ==
    /\ (last.op = "predict" /\ last.hit) =>
           /\ last.status = 200
           /\ last.key \in DOMAIN prediction_cache
           /\ last.body = <<prediction_cache[last.key]>>
           /\ last.loads = 0 /\ last.fetches = 0 /\ last.predicts = 0
    /\ (last.op = "predict" /\ ~last.hit /\ last.status = 200) =>
           /\ last.key \in DOMAIN prediction_cache
           /\ last.body = <<prediction_cache[last.key]>>
    /\ \A k \in Keys : Cardinality(returned[k]) <= 1

WitC4 ==
    /\ last.op = "predict" /\ last.hit
    /\ Cardinality(returned[last.key]) = 1
    /\ \E k \in DOMAIN prediction_cache :
           k[1] = last.key[1] /\ prediction_cache[k] # prediction_cache[last.key]

\* C5 as stated: for every key model_loader.predict runs in at most one
\* request; two requests that miss the cache never both compute.
CexC5 ==
    (last.op = "predict" /\ last.predicts = 1) => ~last.again

\* C5: for every key at most one request obtains a probability from the
\* scorer and stores a result; a request for a key computes again only when
\* every earlier computation for the key failed (handlers run one at a time,
\* from the cache test to the store).
ThmC5 ==
    /\ \A k \in Keys :
           /\ scored[k] <= 1
           /\ scored[k] = 1 <=> k \in DOMAIN prediction_cache
    /\ (last.op = "predict" /\ last.predicts = 1 /\ last.again) =>
           scored[last.key] = IF last.status = 200 THEN 1 ELSE 0

WitC5 ==
    /\ last.op = "predict" /\ last.again /\ last.status = 200
    /\ scored[last.key] = 1
    /\ \E k \in DOMAIN prediction_cache : k # last.key

\* C6: a request that ends in HTTP 500 leaves prediction_cache as it was and
\* its key without an entry, so the next request for the key is a miss.
ThmC6 ==
    [][(last'.op = "predict" /\ last'.status = 500) =>
           /\ prediction_cache' = prediction_cache
           /\ last'.key \notin DOMAIN prediction_cache']_vars

WitC6 ==
    /\ last.op = "predict" /\ last.status = 500 /\ last.predicts = 1
    /\ model_loader[1].loaded
    /\ DOMAIN prediction_cache # {}

\* C7: an entry of prediction_cache is never replaced or removed.
ThmC7 ==
    [][\A k \in DOMAIN prediction_cache :
           /\ k \in DOMAIN prediction_cache'
           /\ prediction_cache'[k] = prediction_cache[k]]_vars

WitC7 ==
    /\ Cardinality(DOMAIN prediction_cache) >= 2
    /\ last.op = "predict" /\ last.hit

ThmC9 ==
    (last.op \in {"predict", "predict_features"} /\ last.predicts = 1
     /\ ~last.ready) =>
        /\ last.status = 500
        /\ last.body = <<>>
        /\ ~last.scored

WitC9 ==
    /\ last.op = "predict" /\ last.predicts = 1 /\ ~last.ready
    /\ model_loader[1].model # <<>>
    /\ model_loader[1].feature_names = <<>>
    /\ last.status = 500

\* C10: after a failed preload, a prediction request that computes has had
\* load invoked again, and finds the model usable if the files are readable.
CexC10 ==
    (startup = "failed" /\ last.op = "predict" /\ ~last.hit) =>
        /\ load_calls >= 2
        /\ last.readable => last.ready

\* the value the items give a name, 0 when no item has it
ItemValue(items, name) ==
    IF \E j \in 1..Len(items) : items[j][1] = name
    THEN items[CHOOSE j \in 1..Len(items) : items[j][1] = name][2]
    ELSE 0

\* C11: the vector has one entry per schema name, in schema order: the
\* mapping's value for the name, 0 for a name the mapping lacks; the order of
\* the mapping's keys and its keys outside the schema change nothing.
ThmC11 ==
    (probe.fn \in {"predict", "predict_reversed"}) =>
        /\ Len(probe.out[1]) = Len(probe.feature_names)
        /\ \A i \in 1..Len(probe.feature_names) :
               probe.out[1][i] = ItemValue(probe.items, probe.feature_names[i])

WitC11 ==
    /\ probe.fn = "predict"
    /\ probe.feature_names = <<"a", "c">>
    /\ probe.items = << <<"b", 2>>, <<"a", 5>> >>
    /\ probe.out[1] = <<5, 0>>

\* the rule a sentence belongs to, in checklist order; 0 for the fallback
RuleOf(text) ==
    CASE text \in {"High previous day AQI", "Low previous day AQI"} -> 1
      [] text \in {"Low wind speed - poor dispersion", "Good wind conditions"} -> 2
      [] text \in {"Recent precipitation - cleaner air",
                   "No recent rain - particles not washed out"} -> 3
      [] text = "High temperature - increased emissions" -> 4
      [] text = "Elevated 3-day average AQI" -> 5
      [] text = "Weekend - typically lower emissions" -> 6
      [] OTHER -> 0

\* the rules a mapping triggers
Triggered(f) ==
    {n \in 1..6 :
        \/ n = 1 /\ "AQI_prev1" \in DOMAIN f
                 /\ (f["AQI_prev1"] > 8000 \/ f["AQI_prev1"] < 3000)
        \/ n = 2 /\ "wind_avg" \in DOMAIN f
                 /\ (f["wind_avg"] < 500 \/ f["wind_avg"] > 1200)
        \/ n = 3 /\ "precip" \in DOMAIN f /\ "has_rain" \in DOMAIN f
        \/ n = 4 /\ "temp_max" \in DOMAIN f /\ f["temp_max"] > 8500
        \/ n = 5 /\ "AQI_3day_avg" \in DOMAIN f /\ f["AQI_3day_avg"] > 6000
        \/ n = 6 /\ "is_weekend" \in DOMAIN f /\ f["is_weekend"] = 1}

\* C12: the result lists the triggered rules in checklist order, cut to the
\* first three; it is the one fallback sentence exactly when no rule
\* triggers; it has 1 to 3 entries and is the same for every threshold.
ThmC12 ==
    probe.fn = "get_top_factors" =>
        LET out == probe.out[1]
            T   == Triggered(probe.features)
        IN  /\ Len(out) >= 1 /\ Len(out) <= 3
            /\ (T = {}) <=> (out = << <<"Multiple moderate factors", 0>> >>)
            /\ T # {} =>
                   /\ Len(out) = IF Cardinality(T) < 3 THEN Cardinality(T) ELSE 3
                   /\ \A i \in 1..Len(out) :
                          /\ RuleOf(out[i][1]) \in T
                          /\ Cardinality({n \in T : n < RuleOf(out[i][1])}) = i - 1
            /\ \A t \in Thresholds : get_top_factors(probe.features, t) = out

WitC12 ==
    /\ probe.fn = "get_top_factors"
    /\ Cardinality(Triggered(probe.features)) = 5
    /\ 1 \notin Triggered(probe.features)
    /\ Len(probe.out[1]) = 3
    /\ probe.out[1][3][1] = "High temperature - increased emissions"

\* ---- training frames

\* load_and_prepare_data has returned
Trained == probe.fn = "load_and_prepare_data"

\* the AQI readings of the file in date order, row r of the sorted frame
\* being day r of the series
SortedAQI == ReadAQI(probe.aqi, probe.missing)

\* the readings of the w rows before row r
Before(r, w) ==
    SelectSeq(SubSeq(SortedAQI, IF r - w < 1 THEN 1 ELSE r - w, r - 1),
              LAMBDA v : v # None)

\* two statistics are the same number, or both undefined
SameRatio(a, b) ==
    IF a = NaN \/ b = NaN THEN a = b ELSE a[1] * b[2] = b[1] * a[2]

MeanOf(w) == IF w = <<>> THEN NaN ELSE <<Sum(w), Len(w)>>

MaxOf(w) ==
    IF w = <<>> THEN NaN
    ELSE <<CHOOSE m \in {w[k] : k \in 1..Len(w)} :
               \A k \in 1..Len(w) : w[k] <= m, 1>>

\* the sample variance, from the squared differences of the pairs a < b
VarianceOf(w) ==
    IF Len(w) < 2 THEN NaN
    ELSE <<Sum([k \in 1..(Len(w) * Len(w)) |->
                   LET a == ((k - 1) \div Len(w)) + 1
                       b == ((k - 1) % Len(w)) + 1
                   IN  IF a < b THEN (w[a] - w[b]) * (w[a] - w[b]) ELSE 0]),
           Len(w) * (Len(w) - 1)>>

\* C16: in the frame create_features returns, the rolling mean, max and
\* deviation of every row are those of the readings of the 3 (or 7) rows
\* before it, the row itself and the later rows taking no part; the first
\* row has none of them, and the second row's mean and max are the first
\* row's reading.
ThmC16 ==
    Trained =>
        LET df == probe.out[1].df
        IN  /\ \A r \in 1..Len(df) :
                /\ SameRatio(df[r]["AQI_3day_avg"], MeanOf(Before(r, 3)))
                /\ SameRatio(df[r]["AQI_7day_avg"], MeanOf(Before(r, 7)))
                /\ SameRatio(df[r]["AQI_3day_max"], MaxOf(Before(r, 3)))
                /\ df[r]["AQI_7day_std"] = VarianceOf(Before(r, 7))
            /\ \A c \in {"AQI_3day_avg", "AQI_7day_avg", "AQI_3day_max",
                         "AQI_7day_std"} : df[1][c] = NaN
            /\ Len(df) >= 2 =>
                \A c \in {"AQI_3day_avg", "AQI_7day_avg", "AQI_3day_max"} :
                    df[2][c] = IF SortedAQI[1] = None THEN NaN
                               ELSE <<SortedAQI[1], 1>>

\* a nine-day file read in the opposite order whose first and ninth readings
\* are unhealthy and the others not: the ninth row's statistics are those of
\* rows 2..8 and of rows 6..8
WitC16 ==
    /\ Trained
    /\ Len(probe.aqi) >= 9
    /\ probe.reversed /\ probe.missing = {}
    /\ probe.aqi[1] = 10100 /\ probe.aqi[9] = 10100
    /\ \A k \in 2..8 : probe.aqi[k] = 4000
    /\ probe.out[1].df[9]["AQI_7day_avg"] = <<28000, 7>>
    /\ probe.out[1].df[9]["AQI_3day_max"] = <<4000, 1>>
    /\ probe.out[1].df[9]["AQI_7day_std"] = <<0, 42>>

MeanColumns == {"AQI_3day_avg", "AQI_7day_avg", "AQI_3day_max"}

\* the original statement of C17: the mean and max of a row are defined
\* exactly from the second row on and the deviation exactly from the third
\* row on, whatever the readings.
CexC17 ==
    Trained =>
        \A r \in 1..Len(probe.out[1].df) :
            /\ \A c \in MeanColumns : (probe.out[1].df[r][c] # NaN) <=> (r >= 2)
            /\ (probe.out[1].df[r]["AQI_7day_std"] # NaN) <=> (r >= 3)

\* C17 (amended): the rolling mean and max of a row are defined exactly when
\* one of the rows of the window before it holds a reading, and are taken
\* over the readings there are when these are fewer than the window; the
\* rolling deviation is defined exactly when two of the 7 rows before it hold
\* a reading.  In a file with no reading missing that is from the second
\* row on for the mean and max and from the third row on for the deviation.
\* When all the readings are one value, every defined mean is that value and
\* every defined deviation is 0.
ThmC17 ==
    Trained =>
        LET df == probe.out[1].df
        IN  \A r \in 1..Len(df) :
                /\ (df[r]["AQI_3day_avg"] # NaN) <=> (Len(Before(r, 3)) >= 1)
                /\ (df[r]["AQI_3day_max"] # NaN) <=> (Len(Before(r, 3)) >= 1)
                /\ (df[r]["AQI_7day_avg"] # NaN) <=> (Len(Before(r, 7)) >= 1)
                /\ (df[r]["AQI_7day_std"] # NaN) <=> (Len(Before(r, 7)) >= 2)
                /\ df[r]["AQI_3day_avg"] # NaN =>
                       df[r]["AQI_3day_avg"][2] = Len(Before(r, 3))
                /\ df[r]["AQI_7day_avg"] # NaN =>
                       df[r]["AQI_7day_avg"][2] = Len(Before(r, 7))
                /\ probe.missing = {} =>
                       /\ \A c \in MeanColumns : (df[r][c] # NaN) <=> (r >= 2)
                       /\ (df[r]["AQI_7day_std"] # NaN) <=> (r >= 3)
                /\ \A v \in TrainAQI :
                       (\A k \in 1..Len(probe.aqi) : probe.aqi[k] = v) =>
                           /\ \A c \in {"AQI_3day_avg", "AQI_7day_avg"} :
                                  df[r][c] # NaN =>
                                      df[r][c][1] = v * df[r][c][2]
                           /\ df[r]["AQI_7day_std"] # NaN =>
                                  df[r]["AQI_7day_std"][1] = 0

\* a constant series of at least four days with the second and third
\* readings missing: the fourth row's mean is the constant, taken over one
\* reading, and its deviation is undefined
WitC17 ==
    /\ Trained
    /\ Len(probe.aqi) >= 4
    /\ probe.missing = {2, 3}
    /\ \A k \in 1..Len(probe.aqi) : probe.aqi[k] = 4000
    /\ probe.out[1].df[4]["AQI_3day_avg"] = <<4000, 1>>
    /\ probe.out[1].df[4]["AQI_7day_std"] = NaN
    /\ probe.out[1].df[2]["AQI_7day_std"] = NaN
    /\ probe.out[1].df[2]["AQI_3day_max"] = <<4000, 1>>

\* the rows of a frame whose AQI_prev1 is defined
WithPrev1(df) == SelectSeq(df, LAMBDA row : row["AQI_prev1"] # None)

\* C18: in the frame create_features returns, AQI_prevK of row r (K = 1, 2,
\* 7) is the reading of the K-th row before it in date order, whatever the
\* dates of the two rows, and is null when fewer than K rows precede it;
\* prepare_for_training keeps exactly the rows whose AQI_prev1 is defined.
ThmC18 ==
    Trained =>
        LET df == probe.out[1].df
            X  == probe.out[1].prepared.X
        IN  /\ \A r \in 1..Len(df) :
                /\ df[r]["AQI"] = SortedAQI[r]
                /\ \A K \in {1, 2, 7} :
                       df[r]["AQI_prev" \o ToString(K)] =
                           IF r > K THEN SortedAQI[r - K] ELSE None
            /\ ~probe.out[1].prepared.raised
            /\ Len(X) = Len(WithPrev1(df))
            /\ \A k \in 1..Len(X) :
                /\ X[k]["AQI_prev1"] # None
                /\ X[k]["AQI_prev1"] = WithPrev1(df)[k]["AQI_prev1"]
                /\ WithPrev1(df)[k]["AQI_prev2"] # None =>
                       X[k]["AQI_prev2"] = WithPrev1(df)[k]["AQI_prev2"]

\* a nine-day file with days missing after the second, read in the opposite
\* order: the third row's previous reading is that of three days before, the
\* ninth row has the reading of seven rows before, and the first row alone
\* is dropped
WitC18 ==
    /\ Trained
    /\ Len(probe.aqi) >= 9
    /\ probe.gap /\ probe.reversed /\ probe.missing = {}
    /\ probe.aqi[2] = 10100 /\ probe.aqi[3] = 4000
    /\ probe.out[1].df[3]["Date"] = probe.out[1].df[2]["Date"] + 3
    /\ probe.out[1].df[3]["AQI_prev1"] = 10100
    /\ probe.out[1].df[9]["AQI_prev7"] = 10100
    /\ probe.out[1].df[7]["AQI_prev7"] = None
    /\ Len(probe.out[1].prepared.X) = Len(probe.aqi) - 1

\* ---- the feature mappings that reach the scorer

LiveMapped == probe.fn = "predict_air_quality"

CustomMapped == probe.fn = "predict_with_features"

\* the mappings of the state: the rows of the training frame, or the mapping
\* a prediction request hands to model_loader.predict
Mappings ==
    IF Trained
    THEN {probe.out[1].df[r] : r \in 1..Len(probe.out[1].df)}
    ELSE IF LiveMapped \/ CustomMapped THEN {probe.out[1]} ELSE {}

\* the original statement of C13: December and January give season 0 and
\* June gives season 1, on the three paths.
CexC13 ==
    \A m \in Mappings :
        /\ m["month"] \in {12, 1} => m["season"] = 0
        /\ m["month"] = 6 => m["season"] = 1

\* C13 (amended): on the three paths the season of a month is 0 for
\* December, January and February, 1 for March to May, 2 for June to August
\* and 3 for September to November; June gives season 2.
ThmC13 ==
    \A m \in Mappings :
        /\ m["month"] \in 1..12
        /\ m["month"] \in {12, 1, 2} => m["season"] = 0
        /\ m["month"] \in {3, 4, 5} => m["season"] = 1
        /\ m["month"] \in {6, 7, 8} => m["season"] = 2
        /\ m["month"] \in {9, 10, 11} => m["season"] = 3

\* a request on a day of December whose mapping has season 0
WitC13 ==
    /\ LiveMapped
    /\ DateOf(probe.today + 1).month = 12
    /\ probe.out[1]["month"] = 12
    /\ probe.out[1]["season"] = 0

\* the target date is January 1, July 4 or December 25
HolidayDate(d) ==
    \/ DateOf(d).month = 1 /\ DateOf(d).day = 1
    \/ DateOf(d).month = 7 /\ DateOf(d).day = 4
    \/ DateOf(d).month = 12 /\ DateOf(d).day = 25

\* C14: is_holiday is 1 exactly when the target date is January 1, July 4 or
\* December 25, in the rows create_features derives and in the mapping of
\* the live path (whose target date is tomorrow).
CexC14 ==
    /\ Trained =>
           \A m \in Mappings : (m["is_holiday"] = 1) <=> HolidayDate(m["Date"])
    /\ LiveMapped =>
           \A m \in Mappings :
               (m["is_holiday"] = 1) <=> HolidayDate(probe.today + 1)

\* C15: in every mapping that reaches the scorer, is_weekend is 1 exactly
\* when day_of_week is 5 or 6.
CexC15 ==
    \A m \in Mappings : (m["is_weekend"] = 1) <=> (m["day_of_week"] \in {5, 6})

\* the trend of a row is its previous reading less its 7-day mean, when the
\* three are defined
TrendIdentity(m) ==
    (/\ m["AQI_prev1"] # None
     /\ Len(m["AQI_7day_avg"]) = 2 /\ m["AQI_7day_avg"] # NaN
     /\ Len(m["AQI_trend"]) = 2 /\ m["AQI_trend"] # NaN) =>
        m["AQI_trend"][1] * m["AQI_7day_avg"][2] =
            (m["AQI_prev1"] * m["AQI_7day_avg"][2] - m["AQI_7day_avg"][1])
                * m["AQI_trend"][2]

\* C19: wherever AQI_trend, AQI_prev1 and AQI_7day_avg are all defined, in a
\* row of the training frame, in a row handed to the trainer and in the
\* mapping of the live path, AQI_trend = AQI_prev1 - AQI_7day_avg.
ThmC19 ==
    /\ Trained =>
           /\ \A m \in Mappings : TrendIdentity(m)
           /\ \A k \in 1..Len(probe.out[1].prepared.X) :
                  TrendIdentity(probe.out[1].prepared.X[k])
    /\ LiveMapped =>
           \A m \in Mappings :
               m["AQI_trend"] = m["AQI_prev1"] - m["AQI_7day_avg"]

\* a file whose first reading is 40 and second 101: the third row's trend
\* is 101 - 70.5, and the row is handed to the trainer
WitC19 ==
    /\ Trained
    /\ Len(probe.aqi) >= 3
    /\ probe.missing = {}
    /\ probe.aqi[1] = 4000 /\ probe.aqi[2] = 10100
    /\ probe.out[1].df[3]["AQI_trend"] = <<6100, 2>>
    /\ probe.out[1].prepared.X[2]["AQI_trend"] = <<6100, 2>>

\* the key is in the mapping exactly when the sources are
ProducedIff(m, key, supplied) == (key \in DOMAIN m) <=> supplied

\* C20: temp_bin is produced iff temp_max was supplied, wind_category and
\* is_stagnant iff wind_avg, has_rain iff precip, humidity_high iff rh_avg,
\* temp_wind_ratio iff temp_max and wind_avg: in the training frame for the
\* columns of the file, and on the explicit-features endpoint for the fields
\* of the request body, a field left out being one that was not supplied.
CexC20 ==
    /\ Trained =>
           \A m \in Mappings :
               /\ ProducedIff(m, "temp_bin", "temp_max" \in probe.columns)
               /\ ProducedIff(m, "wind_category", "wind_avg" \in probe.columns)
               /\ ProducedIff(m, "is_stagnant", "wind_avg" \in probe.columns)
               /\ ProducedIff(m, "has_rain", "precip" \in probe.columns)
               /\ ProducedIff(m, "humidity_high", "rh_avg" \in probe.columns)
               /\ ProducedIff(m, "temp_wind_ratio",
                              {"temp_max", "wind_avg"} \subseteq probe.columns)
    /\ CustomMapped =>
           \A m \in Mappings :
               /\ ProducedIff(m, "temp_bin", probe.features.temp_max # None)
               /\ ProducedIff(m, "wind_category", probe.features.wind_avg # None)
               /\ ProducedIff(m, "is_stagnant", probe.features.wind_avg # None)
               /\ ProducedIff(m, "has_rain", probe.features.precip # None)
               /\ ProducedIff(m, "humidity_high", probe.features.rh_avg # None)
               /\ ProducedIff(m, "temp_wind_ratio",
                              probe.features.temp_max # None
                              /\ probe.features.wind_avg # None)

\* ---- the responses of the two endpoints on their own

\* a PredictionResponse with the fields of a Decision Result
DecisionResult(r) ==
    /\ DOMAIN r = {"date", "location", "prob_unhealthy", "classification",
                   "threshold", "confidence", "aqi_category", "top_factors"}
    /\ r.classification \in {"Safe", "Unhealthy"}
    /\ r.confidence \in {"Low", "Medium", "High"}

\* C21: on the live path, when fetch_airnow_current's record is empty or has
\* no AQI value the mapping has AQI_prev1 = 50.0, and when the forecast is
\* empty it has temp_max = 70.0, wind_avg = 8.0 and precip = 0.0; in both
\* cases the request returns a Decision Result whenever the scorer returns a
\* probability.
ThmC21 ==
    LiveMapped =>
        /\ ~Has(probe.replies[1], "AQI") => probe.out[1]["AQI_prev1"] = 5000
        /\ probe.replies[2] = EmptyDict =>
               /\ probe.out[1]["temp_max"] = 7000
               /\ probe.out[1]["wind_avg"] = 800
               /\ probe.out[1]["precip"] = 0
        /\ (probe.score # <<>>
            /\ (~Has(probe.replies[1], "AQI") \/ probe.replies[2] = EmptyDict)) =>
               /\ probe.response # <<>>
               /\ DecisionResult(probe.response[1])

\* a record with no AQI value and an empty forecast: the defaults reach the
\* mapping and the request is answered
WitC21 ==
    /\ LiveMapped
    /\ probe.replies = <<[Category |-> 1], EmptyDict>>
    /\ probe.out[1]["AQI_prev1"] = 5000
    /\ probe.out[1]["temp_max"] = 7000
    /\ probe.response # <<>>
    /\ probe.response[1].classification = "Unhealthy"

\* the position of a name in the feature list
PositionOf(name) == CHOOSE i \in 1..Len(FeatureList) : FeatureList[i] = name

\* the sentences of a Decision Result
Sentences(r) == {r.top_factors[k][1] : k \in 1..Len(r.top_factors)}

NoRain == "No recent rain - particles not washed out"

Rain == "Recent precipitation - cleaner air"

\* C26: on the live path precip is 0.1 when the forecast's precipitation
\* probability is above 50 and 0.0 otherwise (0.0 with no forecast), has_rain
\* is 0 for every forecast, and every response has the sentence "No recent
\* rain - particles not washed out" and never "Recent precipitation - cleaner
\* air".
ThmC26 ==
    LiveMapped =>
        /\ probe.out[1]["precip"] =
               IF Get(probe.replies[2], "precip_prob", 0) > 5000 THEN 10 ELSE 0
        /\ probe.out[1]["has_rain"] = 0
        /\ probe.response # <<>> =>
               /\ NoRain \in Sentences(probe.response[1])
               /\ Rain \notin Sentences(probe.response[1])

\* a forecast with a precipitation probability of 80: precip is 0.1, the
\* flag is 0 and the response says that there was no rain
WitC26 ==
    /\ LiveMapped
    /\ Has(probe.replies[2], "precip_prob")
    /\ probe.replies[2]["precip_prob"] = 8000
    /\ probe.out[1]["precip"] = 10
    /\ probe.out[1]["has_rain"] = 0
    /\ probe.response # <<>>
    /\ NoRain \in Sentences(probe.response[1])

\* C27: no response of either endpoint has the sentence "Multiple moderate
\* factors": the mapping handed to get_top_factors has the keys precip and
\* has_rain, at most two sentences stand before the rain sentence, and every
\* response has exactly one of the two rain sentences.
ThmC27 ==
    (LiveMapped \/ CustomMapped) =>
        /\ {"precip", "has_rain"} \subseteq DOMAIN probe.out[1]
        /\ probe.response # <<>> =>
               /\ "Multiple moderate factors" \notin Sentences(probe.response[1])
               /\ Cardinality(Sentences(probe.response[1]) \cap {NoRain, Rain}) = 1
               /\ \E k \in 1..3 :
                      /\ k <= Len(probe.response[1].top_factors)
                      /\ probe.response[1].top_factors[k][1] \in {NoRain, Rain}
                      /\ \A j \in 1..(k - 1) :
                             probe.response[1].top_factors[j][1] \in
                                 {"High previous day AQI", "Low previous day AQI",
                                  "Low wind speed - poor dispersion",
                                  "Good wind conditions"}

\* a request of the explicit-features endpoint that leaves precip out (0.0)
\* and is answered with the rain sentence alone
WitC27 ==
    /\ CustomMapped
    /\ probe.features.precip = 0
    /\ probe.features.wind_avg = 850
    /\ probe.features.is_weekend = 0
    /\ probe.response # <<>>
    /\ probe.response[1].top_factors = << <<NoRain, 0>> >>

\* ---- the responses of the service

WellFormed(r, threshold) ==
    /\ DecisionResult(r)
    /\ 0 <= r.prob_unhealthy[1] /\ r.prob_unhealthy[1] <= r.prob_unhealthy[2]
    /\ r.threshold = threshold
    /\ Len(r.top_factors) <= 3

\* C22: every response that either prediction endpoint sends with status
\* 200, computed by the request or taken from the cache, has a classification
\* of Safe or Unhealthy, a probability from 0 to 1, a confidence of Low,
\* Medium or High, the configured threshold and at most 3 factors; so has
\* every entry of the cache.
ThmC22 ==
    /\ (last.op \in {"predict", "predict_features"} /\ last.status = 200) =>
           /\ last.body # <<>>
           /\ WellFormed(last.body[1], prediction_threshold)
    /\ \A k \in DOMAIN prediction_cache :
           WellFormed(prediction_cache[k], prediction_threshold)

\* a response served from the cache
WitC22 ==
    /\ last.op = "predict" /\ last.hit /\ last.status = 200
    /\ last.body[1].classification = "Unhealthy"
    /\ last.body[1].prob_unhealthy = <<650, 1000>>
    /\ last.body[1].confidence = "High"

\* C23: every predict_air_quality request ends with status 200 and a
\* Decision Result or with status 500 and none, never both and nothing else;
\* an exception of get_model_loader or of model_loader.predict gives 500, a
\* request in which nothing raised gives 200; a ZIP code that the coordinate
\* table lacks is looked up as the default coordinates and answered alike.
ThmC23 ==
    last.op = "predict" =>
        /\ last.status \in {200, 500}
        /\ last.status = 200 <=> last.body # <<>>
        /\ last.body # <<>> => DecisionResult(last.body[1])
        /\ last.raised # "" => last.status = 500
        /\ last.raised = "" => last.status = 200
        /\ last.fetches = 2 =>
               last.coords = <<IF last.key[1] \in DOMAIN NJ_ZIP_COORDS
                               THEN NJ_ZIP_COORDS[last.key[1]]
                               ELSE <<400583, 0 - 744057>>>>

\* a request for ZIP code 99999, which the table lacks, whose scoring raised
WitC23 ==
    /\ last.op = "predict" /\ ~last.hit
    /\ last.key[1] = "99999"
    /\ last.coords = << <<400583, 0 - 744057>> >>
    /\ last.raised = "predict"
    /\ last.status = 500

\* C28: every entry of prediction_cache under the key of (zip_code, day D)
\* holds a response whose location is zip_code and whose date is day D + 1,
\* also when midnight passes between the handler's two readings of the clock.
CexC28 ==
    \A k \in DOMAIN prediction_cache :
        /\ prediction_cache[k].location = k[1]
        /\ prediction_cache[k].date = Strftime(k[2] + 1)

\* C24: the health check answers with status "ok" whatever the state of the
\* loader global (None, an instance whose load raised, a loaded instance),
\* and its model_loaded is true exactly when an execution of
\* ModelLoader.load has returned in this process.
ThmC24 ==
    last.op = "health" =>
        /\ last.status = 200
        /\ last.body # <<>>
        /\ last.body[1].status = "ok"
        /\ last.body[1].model_loaded <=> load_done >= 1

\* a health check that found the global None, ran a load that raised, and
\* answered ok with model_loaded false
WitC24 ==
    /\ last.op = "health"
    /\ startup = "none"
    /\ last.loads = 1
    /\ load_done = 0
    /\ last.body[1].status = "ok"
    /\ ~last.body[1].model_loaded
    /\ model_loader # <<>>

====
